---- MODULE Spec2Model ----
(***************************************************************************)
(* Model of pucoti's configuration subsystem (src/src/base_config.py):     *)
(* the dataclass schemas, Config.load / gather_updates / unflatten,        *)
(* Config.merge, Config.generate_default_config_yaml and the CLI wrapper   *)
(* built by Config.mk_typer_cli.                                           *)
(*                                                                         *)
(* Python values are tagged records [k |-> kind, v |-> payload]; a dict is *)
(* a sequence of <<key, value>> pairs (insertion order is iteration order);*)
(* an exception is a value [k |-> "err", ...] that every caller passes on. *)
(***************************************************************************)
EXTENDS Integers, Sequences, FiniteSets, TLC

VARIABLES receiver, op, arg, result, aliased, cli, handed, appCalls,
          app, callback, server, search

vars == <<receiver, op, arg, result, aliased, cli, handed, appCalls,
         app, callback, server, search>>

\* the state of the configuration tree, and the state of the rest of the program
configVars == <<receiver, op, arg, result, aliased, cli, handed, appCalls>>
programVars == <<app, callback, server, search>>

(* ------------------------------ values --------------------------------- *)
VStr(s) == [k |-> "str", s |-> s]

VInt(n) == [k |-> "int", n |-> n]

VBool(b) == [k |-> "bool", b |-> b]

VPath(s) == [k |-> "path", s |-> s]

VList(q) == [k |-> "list", q |-> q]

VTuple(q) == [k |-> "tuple", q |-> q]

VMap(q) == [k |-> "map", m |-> q]

VNone == [k |-> "none"]

VRec(c, f) == [k |-> "rec", cls |-> c, f |-> f]

Err(exc, what, at, info) ==
  [k |-> "err", exc |-> exc, what |-> what, at |-> at, info |-> info]

IsErr(x) == x.k = "err"

\* a raised exception passes through the code that follows the call
Then(x, rest(_)) == IF IsErr(x) THEN x ELSE rest(x)

(* ------------------------------- types --------------------------------- *)
TyStr == [k |-> "str"]

TyInt == [k |-> "int"]

TyBool == [k |-> "bool"]

TyPath == [k |-> "path"]

TyFloat == [k |-> "float"]

TyTuple(args) == [k |-> "tuple", args |-> args]

TyList(elem) == [k |-> "list", elem |-> elem]

TyDict == [k |-> "dict"]

TyRec(c) == [k |-> "rec", cls |-> c]

TyAnnot(t, doc) == [k |-> "annot", of |-> t, doc |-> doc]

Missing == [k |-> "missing"]

Fld(n, t, d) == [name |-> n, type |-> t, default |-> d]

(* ------------------------------ dicts ---------------------------------- *)
Keys(q) == {q[i][1] : i \in 1..Len(q)}

HasKey(q, key) == key \in Keys(q)

Get(q, key) == q[CHOOSE i \in 1..Len(q) : q[i][1] = key][2]

\* d[key] = value: replaces in place when the key is present, else appends
Put(q, key, value) ==
  IF HasKey(q, key)
  THEN [i \in 1..Len(q) |-> IF q[i][1] = key THEN <<key, value>> ELSE q[i]]
  ELSE Append(q, <<key, value>>)

RECURSIVE Join(_, _)
Join(parts, sep) ==
  IF Len(parts) = 0 THEN ""
  ELSE IF Len(parts) = 1 THEN parts[1]
  ELSE parts[1] \o sep \o Join(Tail(parts), sep)

(* --------------------------- dataclass schemas ------------------------- *)
\* dataclass __init__: keyword arguments over the declared defaults
New(c, flds, kwargs) ==
  LET names == {flds[i].name : i \in 1..Len(flds)}
      fld(n) == flds[CHOOSE i \in 1..Len(flds) : flds[i].name = n]
  IN IF \E key \in Keys(kwargs) : key \notin names
     THEN Err("TypeError", "unexpected keyword argument", c, "")
     ELSE IF \E n \in names : ~HasKey(kwargs, n) /\ fld(n).default.k = "missing"
     THEN Err("TypeError", "missing required argument", c, "")
     ELSE VRec(c, [n \in names |->
                     IF HasKey(kwargs, n) THEN Get(kwargs, n) ELSE fld(n).default])

SmallConfigFields ==
  << Fld("name", TyStr, VStr("Joe")),
     Fld("age", TyAnnot(TyInt, "Pass -1 if you don't want to tell"), VInt(-1)) >>

ConfigWithListFields ==
  << Fld("names", TyList(TyStr), VList(<<>>)),
     Fld("rect", TyTuple(<<TyInt, TyInt>>), VTuple(<<VInt(3), VInt(4)>>)) >>

RecursiveConfigFields ==
  << Fld("small", TyRec("SmallConfig"), New("SmallConfig", SmallConfigFields, <<>>)),
     Fld("lists", TyAnnot(TyRec("ConfigWithList"), "Annot for a sub-config"),
         New("ConfigWithList", ConfigWithListFields, <<>>)) >>

RunAtConfigFields ==
  << Fld("at", TyStr, VStr("-1m")),
     Fld("cmd", TyStr, VStr("notify-send 'Time is up by one minute!'")) >>

FontConfigFields ==
  << Fld("timer", TyAnnot(TyPath, "Font file for the big timer"),
         VPath("assets/Bevan-Regular.ttf")),
     Fld("rest", TyAnnot(TyPath, "Font for everything else"),
         VPath("assets/Bevan-Regular.ttf")) >>

Color == TyTuple(<<TyInt, TyInt, TyInt>>)

Rgb(r, g, b) == VTuple(<<VInt(r), VInt(g), VInt(b)>>)

ColorConfigFields ==
  << Fld("timer", Color, Rgb(255, 224, 145)),
     Fld("timer_up", Color, Rgb(255, 0, 0)),
     Fld("purpose", Color, Rgb(183, 255, 183)),
     Fld("total_time", Color, Rgb(183, 183, 255)),
     Fld("background", Color, Rgb(0, 0, 0)) >>

WindowConfigFields ==
  << Fld("initial_position", TyTuple(<<TyInt, TyInt>>), VTuple(<<VInt(-5), VInt(-5)>>)),
     Fld("initial_size", TyTuple(<<TyInt, TyInt>>), VTuple(<<VInt(220), VInt(80)>>)) >>

PucotiConfigFields ==
  << Fld("initial_timer", TyAnnot(TyStr, "The initial timer duration"), VStr("5m")),
     Fld("bell", TyAnnot(TyPath, "Path to the file played when time is up"),
         VPath("assets/bell.mp3")),
     Fld("ring_every", TyAnnot(TyInt, "Time between bells, in seconds"), VInt(20)),
     Fld("ring_count",
         TyAnnot(TyInt, "Number of bells played when the time is up. -1 means no limit."),
         VInt(-1)),
     Fld("restart", TyAnnot(TyBool, "Restart the timer when it reaches 0"), VBool(FALSE)),
     Fld("history_file", TyAnnot(TyPath, "Path to save the history of purposes"),
         VPath("~/.pucoti_history")),
     Fld("font", TyRec("FontConfig"), New("FontConfig", FontConfigFields, <<>>)),
     Fld("color", TyRec("ColorConfig"), New("ColorConfig", ColorConfigFields, <<>>)),
     Fld("window", TyRec("WindowConfig"), New("WindowConfig", WindowConfigFields, <<>>)),
     Fld("run_at", TyList(TyRec("RunAtConfig")), VList(<<>>)) >>

\* Schemas the generic code is also applied to: a record field whose default
\* instance is not the nested class's own default, a list of records that
\* hold tuple fields, a list field that carries a description, two paths
\* (small.age, small_age) that differ only by '.' against '_', a leaf field
\* without a default and a record field without a default.
ShiftedConfigFields ==
  << Fld("small", TyRec("SmallConfig"),
         New("SmallConfig", SmallConfigFields, <<<<"age", VInt(5)>>>>)) >>

ScreensConfigFields ==
  << Fld("windows", TyList(TyRec("WindowConfig")), VList(<<>>)) >>

TaggedConfigFields ==
  << Fld("label", TyStr, VStr("x")),
     Fld("tags", TyAnnot(TyList(TyStr), "Tags of the timer"), VList(<<>>)) >>

ClashConfigFields ==
  << Fld("small", TyRec("SmallConfig"), New("SmallConfig", SmallConfigFields, <<>>)),
     Fld("small_age", TyInt, VInt(0)) >>

BareLeafConfigFields ==
  << Fld("count", TyInt, Missing),
     Fld("label", TyStr, VStr("x")) >>

BareRecordConfigFields ==
  << Fld("small", TyRec("SmallConfig"), Missing) >>

ClassNames ==
  {"SmallConfig", "ConfigWithList", "RecursiveConfig", "RunAtConfig", "FontConfig",
   "ColorConfig", "WindowConfig", "PucotiConfig", "ShiftedConfig", "ScreensConfig",
   "TaggedConfig", "ClashConfig", "BareLeafConfig", "BareRecordConfig"}

\* dataclasses.fields(cls)
fields(c) ==
  CASE c = "SmallConfig" -> SmallConfigFields
    [] c = "ConfigWithList" -> ConfigWithListFields
    [] c = "RecursiveConfig" -> RecursiveConfigFields
    [] c = "RunAtConfig" -> RunAtConfigFields
    [] c = "FontConfig" -> FontConfigFields
    [] c = "ColorConfig" -> ColorConfigFields
    [] c = "WindowConfig" -> WindowConfigFields
    [] c = "PucotiConfig" -> PucotiConfigFields
    [] c = "ShiftedConfig" -> ShiftedConfigFields
    [] c = "ScreensConfig" -> ScreensConfigFields
    [] c = "TaggedConfig" -> TaggedConfigFields
    [] c = "ClashConfig" -> ClashConfigFields
    [] c = "BareLeafConfig" -> BareLeafConfigFields
    [] c = "BareRecordConfig" -> BareRecordConfigFields

\* cls(**kwargs)
Construct(c, kwargs) == New(c, fields(c), kwargs)

\* Config.is_config: strips one Annotated, then issubclass(type_hint, Config)
is_config(type_hint) ==
  LET t == IF type_hint.k = "annot" THEN type_hint.of ELSE type_hint
  IN t.k = "rec"

\* the class a record-typed hint names
ConfigClass(type_hint) ==
  IF type_hint.k = "annot" THEN type_hint.of.cls ELSE type_hint.cls

(* ------------------------------ Config.merge --------------------------- *)
RECURSIVE merge(_, _), merge_fields(_, _, _), merge_fields_extend(_, _, _)
\* the loop as it would be if a list or tuple override were added to the
\* elements the field holds instead of replacing them
merge_fields_extend(self, values, flds) ==
  IF Len(flds) = 0 THEN VMap(<<>>)
  ELSE IF ~HasKey(values.m, flds[1].name) THEN merge_fields_extend(self, values, Tail(flds))
  ELSE Then(IF is_config(flds[1].type)
            THEN merge(self.f[flds[1].name], Get(values.m, flds[1].name))
            ELSE IF Get(values.m, flds[1].name).k \in {"list", "tuple"}
            THEN [Get(values.m, flds[1].name) EXCEPT
                    !.q = self.f[flds[1].name].q \o @]
            ELSE Get(values.m, flds[1].name),
            LAMBDA new :
              Then(merge_fields_extend(self, values, Tail(flds)),
                   LAMBDA rest : VMap(<<<<flds[1].name, new>>>> \o rest.m)))

\* the loop over fields(self): the kwargs dict built from the fields flds
merge_fields(self, values, flds) ==
  IF Len(flds) = 0 THEN VMap(<<>>)
  ELSE IF ~HasKey(values.m, flds[1].name) THEN merge_fields(self, values, Tail(flds))
  ELSE Then(IF is_config(flds[1].type)
            THEN merge(self.f[flds[1].name], Get(values.m, flds[1].name))
            ELSE Get(values.m, flds[1].name),
            LAMBDA new :
              Then(merge_fields(self, values, Tail(flds)),
                   LAMBDA rest : VMap(<<<<flds[1].name, new>>>> \o rest.m)))

\* merge as it would be if it rejected the keys that name no field
merge_strict(self, values) ==
  IF self.k # "rec" THEN Err("AttributeError", "object has no attribute merge", "", "")
  ELSE IF values.k # "map" THEN Err("TypeError", "argument is not iterable", "", "")
  ELSE IF \E key \in Keys(values.m) : \A i \in 1..Len(fields(self.cls)) :
            fields(self.cls)[i].name # key
  THEN Err("ValueError", "Unknown field", "", "")
  ELSE Then(merge_fields(self, values, fields(self.cls)),
            LAMBDA kwargs : Construct(self.cls, kwargs.m))

merge(self, values) ==
  IF self.k # "rec" THEN Err("AttributeError", "object has no attribute merge", "", "")
  ELSE IF values.k # "map" THEN Err("TypeError", "argument is not iterable", "", "")
  ELSE Then(merge_fields(self, values, fields(self.cls)),
            LAMBDA kwargs : Construct(self.cls, kwargs.m))

(* ------------------------- primitive constructors ---------------------- *)
\* integers whose decimal literal int() and float() are asked to parse
IntLiterals == -9..99

IsIntLiteral(s) == \E n \in IntLiterals : ToString(n) = s

IntOfLiteral(s) == CHOOSE n \in IntLiterals : ToString(n) = s

RECURSIVE PyRepr(_), PyReprSeq(_)
\* repr(x), which str(x) and the f-strings use for containers
PyRepr(x) ==
  CASE x.k = "str" -> "'" \o x.s \o "'"
    [] x.k = "int" -> ToString(x.n)
    [] x.k = "float" -> ToString(x.n) \o ".0"
    [] x.k = "bool" -> IF x.b THEN "True" ELSE "False"
    [] x.k = "none" -> "None"
    [] x.k = "path" -> "PosixPath('" \o x.s \o "')"
    [] x.k = "list" -> "[" \o PyReprSeq(x.q) \o "]"
    [] x.k = "tuple" -> "(" \o PyReprSeq(x.q) \o ")"
    [] x.k = "map" ->
         "{" \o PyReprSeq([i \in 1..Len(x.m) |-> VStr(x.m[i][1])]) \o ": ...}"
    [] x.k = "rec" -> x.cls \o "(...)"

PyReprSeq(q) ==
  IF Len(q) = 0 THEN ""
  ELSE IF Len(q) = 1 THEN PyRepr(q[1])
  ELSE PyRepr(q[1]) \o ", " \o PyReprSeq(Tail(q))

\* str(x)
PyStr(x) == IF x.k \in {"str", "path"} THEN x.s ELSE PyRepr(x)

\* bool(x): truthiness
PyTruth(x) ==
  CASE x.k = "bool" -> x.b
    [] x.k \in {"int", "float"} -> x.n # 0
    [] x.k = "str" -> x.s # ""
    [] x.k = "none" -> FALSE
    [] x.k \in {"list", "tuple"} -> Len(x.q) # 0
    [] x.k = "map" -> Len(x.m) # 0
    [] OTHER -> TRUE

\* int(x) and float(x)
PyNumber(kind, x) ==
  CASE x.k \in {"int", "float"} -> [k |-> kind, n |-> x.n]
    [] x.k = "bool" -> [k |-> kind, n |-> IF x.b THEN 1 ELSE 0]
    [] x.k = "str" ->
         IF IsIntLiteral(x.s) THEN [k |-> kind, n |-> IntOfLiteral(x.s)]
         ELSE Err("ValueError", "invalid literal for " \o kind \o "()", "", PyRepr(x))
    [] OTHER -> Err("TypeError", kind \o "() argument must be a string or a number", "", "")

\* expected_type(data) for expected_type in (str, int, float, Path, bool)
Convert(expected_type, data) ==
  CASE expected_type.k = "str" -> VStr(PyStr(data))
    [] expected_type.k = "int" -> PyNumber("int", data)
    [] expected_type.k = "float" -> PyNumber("float", data)
    [] expected_type.k = "bool" -> VBool(PyTruth(data))
    [] expected_type.k = "path" ->
         IF data.k \in {"str", "path"} THEN VPath(data.s)
         ELSE Err("TypeError", "expected str, bytes or os.PathLike object", "", "")

(* ------------------------------ Config.load ---------------------------- *)
PName(s) == [k |-> "name", s |-> s]

PIdx(i) == [k |-> "idx", n |-> i]

\* ".".join(path + (name,)): str.join raises on the int index of a list element
path_to_str(path, name) ==
  LET p == IF name # "" THEN Append(path, PName(name)) ELSE path
  IN IF \E i \in 1..Len(p) : p[i].k = "idx"
     THEN Err("TypeError", "sequence item: expected str instance, int found", "", "")
     ELSE VStr(Join([i \in 1..Len(p) |-> p[i].s], "."))

\* ", ".join(fields_by_name)
valid_fields(c) == Join([i \in 1..Len(fields(c)) |-> fields(c)[i].name], ", ")

FieldNames(c) == {fields(c)[i].name : i \in 1..Len(fields(c))}

FieldNamed(c, n) == fields(c)[CHOOSE i \in 1..Len(fields(c)) : fields(c)[i].name = n]

\* what one call of gather_updates yields: its return value and the entries
\* it added to to_update, in insertion order
Gathered(val, upd) == [k |-> "gathered", val |-> val, upd |-> upd]

RECURSIVE gather_updates(_, _, _, _), gather_items(_, _, _, _), gather_elems(_, _, _, _),
          gather_sequence(_, _, _, _)
\* for name, value in data.items(): ... (items left to visit)
gather_items(path, items, c, is_inside_list) ==
  IF Len(items) = 0 THEN Gathered(VMap(<<>>), <<>>)
  ELSE IF items[1][1] \notin FieldNames(c)
  THEN Then(path_to_str(path, items[1][1]),
            LAMBDA where : Err("ValueError", "Unknown field", where.s, valid_fields(c)))
  ELSE Then(gather_updates(Append(path, PName(items[1][1])), items[1][2],
                           FieldNamed(c, items[1][1]).type, is_inside_list),
            LAMBDA one :
              Then(gather_items(path, Tail(items), c, is_inside_list),
                   LAMBDA rest :
                     Gathered(VMap(<<<<items[1][1], one.val>>>> \o rest.val.m),
                              one.upd \o rest.upd)))

\* gather_updates(path + (i,), d, sub_types[i], True) for i, d in enumerate(data)
gather_elems(path, data, sub_types, i) ==
  IF i >= Len(data) THEN Gathered(<<>>, <<>>)
  ELSE Then(gather_updates(Append(path, PIdx(i)), data[i + 1], sub_types[i + 1], TRUE),
            LAMBDA one :
              Then(gather_elems(path, data, sub_types, i + 1),
                   LAMBDA rest : Gathered(<<one.val>> \o rest.val, one.upd \o rest.upd)))

\* the branch as it would be if only a list were taken for a sequence
gather_sequence_lists_only(path, data, expected_type, is_inside_list) ==
  IF data.k # "list"
  THEN Then(path_to_str(path, ""),
            LAMBDA where : Err("ValueError", "Expected a list", where.s, PyStr(data)))
  ELSE IF expected_type.k = "tuple" /\ Len(expected_type.args) # Len(data.q)
  THEN Then(path_to_str(path, ""),
            LAMBDA where :
              Err("ValueError",
                  "Expected a tuple of size " \o ToString(Len(expected_type.args)),
                  where.s, ToString(Len(data.q))))
  ELSE Then(gather_elems(path, data.q,
                         IF expected_type.k = "tuple" THEN expected_type.args
                         ELSE [i \in 1..Len(data.q) |-> expected_type.elem],
                         0),
            LAMBDA got :
              Gathered([k |-> expected_type.k, q |-> got.val],
                       IF is_inside_list THEN got.upd
                       ELSE Append(got.upd, <<path, [k |-> expected_type.k, q |-> got.val]>>)))

\* the branch of gather_updates for get_origin(expected_type) in (list, tuple)
gather_sequence(path, data, expected_type, is_inside_list) ==
  IF data.k \notin {"list", "tuple"}
  THEN Then(path_to_str(path, ""),
            LAMBDA where : Err("ValueError", "Expected a list", where.s, PyStr(data)))
  ELSE IF expected_type.k = "tuple" /\ Len(expected_type.args) # Len(data.q)
  THEN Then(path_to_str(path, ""),
            LAMBDA where :
              Err("ValueError",
                  "Expected a tuple of size " \o ToString(Len(expected_type.args)),
                  where.s, ToString(Len(data.q))))
  ELSE Then(gather_elems(path, data.q,
                         IF expected_type.k = "tuple" THEN expected_type.args
                         ELSE [i \in 1..Len(data.q) |-> expected_type.elem],
                         0),
            LAMBDA got :
              Gathered([k |-> expected_type.k, q |-> got.val],
                       IF is_inside_list THEN got.upd
                       ELSE Append(got.upd, <<path, [k |-> expected_type.k, q |-> got.val]>>)))

gather_updates(path, data, declared_type, is_inside_list) ==
  LET expected_type == IF declared_type.k = "annot" THEN declared_type.of ELSE declared_type
  IN IF is_config(expected_type)
     THEN IF data.k # "map"
          THEN Err("AttributeError", "object has no attribute 'items'", "", PyRepr(data))
          ELSE Then(gather_items(path, data.m, expected_type.cls, is_inside_list),
                    LAMBDA got :
                      Then(Construct(expected_type.cls, got.val.m),
                           LAMBDA obj : Gathered(obj, got.upd)))
     ELSE IF expected_type.k \in {"list", "tuple"}
     THEN gather_sequence(path, data, expected_type, is_inside_list)
     ELSE IF expected_type.k \in {"str", "int", "float", "path", "bool"}
     THEN Then(Convert(expected_type, data),
               LAMBDA converted_data :
                 Gathered(converted_data,
                          IF is_inside_list THEN <<>> ELSE <<<<path, converted_data>>>>))
     ELSE Then(path_to_str(path, ""),
               LAMBDA where : Err("ValueError", "Unsupported type", where.s, expected_type.k))

RECURSIVE set_path(_, _, _)
\* obj = obj.setdefault(part, {}) along path[:-1], then obj[path[-1]] = value
set_path(out, path, value) ==
  IF Len(path) = 1 THEN Put(out, path[1].s, value)
  ELSE LET sub == IF HasKey(out, path[1].s) THEN Get(out, path[1].s).m ELSE <<>>
       IN Put(out, path[1].s, VMap(set_path(sub, Tail(path), value)))

RECURSIVE unflatten_from(_, _)
unflatten_from(out, d) ==
  IF Len(d) = 0 THEN out
  ELSE unflatten_from(set_path(out, d[1][1], d[1][2]), Tail(d))

\* unflatten(d): the flat {path: value} dict made into a nested one
unflatten(d) == VMap(unflatten_from(<<>>, d))

\* self.load(conf) for conf a dict (data = conf)
load(self, data) ==
  Then(gather_updates(<<>>, data, TyRec(self.cls), FALSE),
       LAMBDA got : merge(self, unflatten(got.upd)))

(* --------------------------- CLI surface ------------------------------- *)
Param(parts, t) == [name |-> Join(parts, "."), parts |-> parts, type |-> t]

RECURSIVE gather_parameters(_, _), gather_parameters_from(_, _)
\* the loop over fields(cls); prefix is kept as the list of its parts
gather_parameters_from(flds, prefix) ==
  IF Len(flds) = 0 THEN <<>>
  ELSE LET fld == flds[1]
           rest == gather_parameters_from(Tail(flds), prefix)
       IN IF is_config(fld.type)
          THEN gather_parameters(ConfigClass(fld.type), Append(prefix, fld.name)) \o rest
          ELSE IF fld.type.k \in {"list", "dict"} THEN rest
          ELSE <<Param(Append(prefix, fld.name), fld.type)>> \o rest

gather_parameters(c, prefix) == gather_parameters_from(fields(c), prefix)

RECURSIVE get(_, _)
\* obj = getattr(obj, part) for part in name.split(".")
get(obj, parts) ==
  IF Len(parts) = 0 THEN obj ELSE get(obj.f[parts[1]], Tail(parts))

\* name.replace(".", "_")
normalise(parts) == Join(parts, "_")

\* the signature as it would be built if colliding flags were not looked for
new_signature_unchecked(params, defaults) ==
  Then(defaults,
       LAMBDA made :
         [k |-> "signature",
          v |-> [i \in 1..Len(params) |->
                   [flag |-> normalise(params[i].parts),
                    name |-> params[i].name,
                    parts |-> params[i].parts,
                    type |-> IF params[i].type.k = "annot" THEN params[i].type.of
                             ELSE params[i].type,
                    default |-> get(made, params[i].parts)]]])

\* the parameters of new_signature, or the ValueError raised when two paths
\* normalise to one flag, or the error of defaults = cls()
new_signature(params, defaults) ==
  IF \E i, j \in 1..Len(params) :
       i < j /\ normalise(params[i].parts) = normalise(params[j].parts)
  THEN Err("ValueError", "There are two config fields that normalise to", "", "")
  ELSE Then(defaults,
            LAMBDA made :
              [k |-> "signature",
               v |-> [i \in 1..Len(params) |->
                        [flag |-> normalise(params[i].parts),
                         name |-> params[i].name,
                         parts |-> params[i].parts,
                         type |-> IF params[i].type.k = "annot" THEN params[i].type.of
                                  ELSE params[i].type,
                         default |-> get(made, params[i].parts)]]])

\* mk_typer_cli up to the definition of decorator
mk_typer_cli(c) == new_signature(gather_parameters(c, <<>>), Construct(c, <<>>))

\* the keyword arguments a call through new_signature binds: the value given
\* on the command line, else the parameter's default
bind_kwargs(signature, passed) ==
  [i \in 1..Len(signature) |->
     <<signature[i].flag,
       IF HasKey(passed, signature[i].flag) THEN Get(passed, signature[i].flag)
       ELSE signature[i].default>>]

normalised_to_true_name(signature, flag) ==
  signature[CHOOSE i \in 1..Len(signature) : signature[i].flag = flag].name

Called(config) == [k |-> "called", config |-> config]

\* decorated as it would be if a document that does not load were replaced by
\* the defaults
decorated_lenient(c, signature, document, kwargs) ==
  Then(Construct(c, <<>>),
       LAMBDA self : Called(IF IsErr(load(self, document)) THEN self
                            ELSE load(self, document)))

\* decorated(**kwargs): load the persisted document, merge the flags (the
\* merged tree is dropped), call f(config)
decorated(c, signature, document, kwargs) ==
  Then(Then(Construct(c, <<>>), LAMBDA self : load(self, document)),
       LAMBDA config :
         Then(merge(config,
                    VMap([i \in 1..Len(kwargs) |->
                            <<normalised_to_true_name(signature, kwargs[i][1]),
                              kwargs[i][2]>>])),
              LAMBDA merged : Called(config)))

\* the command typer runs: the decorated function under new_signature
run_command(c, document, passed) ==
  Then(mk_typer_cli(c),
       LAMBDA made : decorated(c, made.v, document, bind_kwargs(made.v, passed.m)))

(* --------------------------- document codec ---------------------------- *)
\* cls.__doc__, "" when it is the signature dataclass generates
ClassDoc(c) ==
  CASE c = "SmallConfig" -> "A small config"
    [] c = "ConfigWithList" -> "With lists"
    [] c = "RecursiveConfig" -> "Recursivity!"
    [] c = "RunAtConfig" -> "Run commands at specific times."
    [] c = "ColorConfig" -> "Colors can be both triplets of numbers or hexadecimal values"
    [] c = "PucotiConfig" -> "The main configuration for PUCOTI."
    [] OTHER -> ""

\* one line of the document; ind counts the two-space indents applied to it
Comment(text) == [ind |-> 0, kind |-> "comment", name |-> "", val |-> VStr(text)]

Block(name) == [ind |-> 0, kind |-> "block", name |-> name, val |-> VNone]

Leaf(name, val) == [ind |-> 0, kind |-> "leaf", name |-> name, val |-> val]

\* textwrap.indent(text, "  ")
indent(lines) == [i \in 1..Len(lines) |-> [lines[i] EXCEPT !.ind = @ + 1]]

\* to_nice_yaml: Path -> str, tuple -> list, then the flow-style dump of obj
to_nice_yaml(name, obj) ==
  Leaf(name, IF obj.k = "path" THEN VStr(obj.s)
             ELSE IF obj.k = "tuple" THEN VList(obj.q)
             ELSE obj)

RECURSIVE generate_default_config_yaml(_), generate_fields(_), generate_fields_trailing(_)
\* the loop as it would be if a field's description were emitted after the
\* field instead of before it
generate_fields_trailing(flds) ==
  IF Len(flds) = 0 THEN VList(<<>>)
  ELSE Then(IF is_config(flds[1].type)
            THEN Then(generate_default_config_yaml(ConfigClass(flds[1].type)),
                      LAMBDA sub : VList(<<Block(flds[1].name)>> \o indent(sub.q)))
            ELSE IF flds[1].default.k = "missing"
            THEN Err("ValueError", "Field has no default value", flds[1].name, "")
            ELSE VList(<<to_nice_yaml(flds[1].name, flds[1].default)>>),
            LAMBDA this :
              Then(generate_fields_trailing(Tail(flds)),
                   LAMBDA rest :
                     VList(this.q
                           \o (IF flds[1].type.k = "annot"
                               THEN <<Comment(flds[1].type.doc)>> ELSE <<>>)
                           \o rest.q)))

generate_fields(flds) ==
  IF Len(flds) = 0 THEN VList(<<>>)
  ELSE Then(IF is_config(flds[1].type)
            THEN Then(generate_default_config_yaml(ConfigClass(flds[1].type)),
                      LAMBDA sub : VList(<<Block(flds[1].name)>> \o indent(sub.q)))
            ELSE IF flds[1].default.k = "missing"
            THEN Err("ValueError", "Field has no default value", flds[1].name, "")
            ELSE VList(<<to_nice_yaml(flds[1].name, flds[1].default)>>),
            LAMBDA this :
              Then(generate_fields(Tail(flds)),
                   LAMBDA rest :
                     VList((IF flds[1].type.k = "annot"
                            THEN <<Comment(flds[1].type.doc)>> ELSE <<>>)
                           \o this.q \o rest.q)))

generate_default_config_yaml(c) ==
  Then(generate_fields(fields(c)),
       LAMBDA body :
         VList((IF ClassDoc(c) # "" THEN <<Comment(ClassDoc(c))>> ELSE <<>>) \o body.q))

SelectLines(lines, keep(_)) ==
  LET F[i \in 0..Len(lines)] ==
        IF i = 0 THEN <<>>
        ELSE IF keep(lines[i]) THEN Append(F[i - 1], lines[i]) ELSE F[i - 1]
  IN F[Len(lines)]

RECURSIVE parse_block(_)
\* yaml.safe_load on a block mapping: the entries at the indentation of the
\* first line, each key owning the deeper lines that follow it
parse_block(lines) ==
  IF Len(lines) = 0 THEN <<>>
  ELSE LET base == lines[1].ind
           ends == {j \in 2..Len(lines) : lines[j].ind <= base}
           stop == IF ends = {} THEN Len(lines) + 1
                   ELSE CHOOSE j \in ends : \A m \in ends : j <= m
           children == SubSeq(lines, 2, stop - 1)
           value == IF lines[1].kind = "leaf" THEN lines[1].val
                    ELSE IF Len(children) = 0 THEN VNone
                    ELSE VMap(parse_block(children))
       IN <<<<lines[1].name, value>>>> \o parse_block(SubSeq(lines, stop, Len(lines)))

\* yaml.safe_load(text): comments are dropped, an empty document is None
safe_load(lines) ==
  LET content == SelectLines(lines, LAMBDA l : l.kind # "comment")
  IN IF Len(content) = 0 THEN VNone ELSE VMap(parse_block(content))

\* cls().load(text): yaml.safe_load, then the load of the parsed data
load_text(self, text) == load(self, safe_load(text.q))

RECURSIVE asdict(_)
\* dataclasses.asdict: a dataclass instance becomes the dict of its fields in
\* declaration order, lists and tuples keep their kind, recursively
asdict(obj) ==
  CASE obj.k = "rec" ->
         VMap([i \in 1..Len(fields(obj.cls)) |->
                 <<fields(obj.cls)[i].name, asdict(obj.f[fields(obj.cls)[i].name])>>])
    [] obj.k \in {"list", "tuple"} ->
         [obj EXCEPT !.q = [i \in 1..Len(obj.q) |-> asdict(obj.q[i])]]
    [] OTHER -> obj

(* ------------------------------- inputs -------------------------------- *)
\* most entries of one overrides dict, raw document or command line
MaxEntries == 2

RootClasses ==
  {"SmallConfig", "ConfigWithList", "RecursiveConfig", "ShiftedConfig",
   "ScreensConfig", "TaggedConfig", "ClashConfig", "BareLeafConfig", "BareRecordConfig",
   "PucotiConfig"}

\* the arguments an instance of class c cannot be built without
Required(c) ==
  CASE c = "BareLeafConfig" -> <<<<"count", VInt(1)>>>>
    [] c = "BareRecordConfig" -> <<<<"small", Construct("SmallConfig", <<>>)>>>>
    [] OTHER -> <<>>

Ints(q) == [i \in 1..Len(q) |-> VInt(q[i])]

\* typed values for Config.merge, by path
TypedLeaves(c) ==
  CASE c = "SmallConfig" ->
         {<<<<"name">>, VStr("Ann")>>, <<<<"age">>, VInt(12)>>}
    [] c = "ConfigWithList" ->
         {<<<<"names">>, VList(<<VStr("a")>>)>>, <<<<"names">>, VList(<<>>)>>,
          <<<<"rect">>, VTuple(Ints(<<1, 2>>))>>}
    [] c = "RecursiveConfig" ->
         {<<<<"small", "name">>, VStr("Ann")>>, <<<<"small", "age">>, VInt(99)>>,
          <<<<"lists", "rect">>, VTuple(Ints(<<1, 2>>))>>}
    [] c = "ShiftedConfig" ->
         {<<<<"small", "name">>, VStr("Ann")>>, <<<<"small", "age">>, VInt(7)>>}
    [] c = "ScreensConfig" ->
         {<<<<"windows">>, VList(<<Construct("WindowConfig", <<>>)>>)>>}
    [] c = "TaggedConfig" ->
         {<<<<"label">>, VStr("y")>>, <<<<"tags">>, VList(<<VStr("a")>>)>>}
    [] c = "ClashConfig" ->
         {<<<<"small_age">>, VInt(3)>>}
    [] c = "BareLeafConfig" ->
         {<<<<"count">>, VInt(2)>>}
    [] c = "BareRecordConfig" ->
         {<<<<"small", "name">>, VStr("Ann")>>}
    [] c = "PucotiConfig" ->
         {<<<<"ring_every">>, VInt(30)>>, <<<<"restart">>, VBool(TRUE)>>,
          <<<<"window", "initial_size">>, VTuple(Ints(<<300, 100>>))>>}

\* override keys that name no field: top level, nested, and a flat dotted key
UnknownLeaves(c) ==
  CASE c = "RecursiveConfig" ->
         {<<<<"bogus">>, VInt(1)>>, <<<<"small", "bogus">>, VInt(1)>>,
          <<<<"small.age">>, VInt(99)>>}
    [] c = "PucotiConfig" ->
         {<<<<"bogus">>, VInt(1)>>, <<<<"window.initial_size">>, VTuple(Ints(<<300, 100>>))>>}
    [] OTHER -> {<<<<"bogus">>, VInt(1)>>}

\* raw (parsed, untyped) values for Config.load, by path
RawLeaves(c) ==
  CASE c = "SmallConfig" ->
         {<<<<"name">>, VStr("Ann")>>, <<<<"age">>, VInt(99)>>, <<<<"age">>, VStr("12")>>,
          <<<<"age">>, VStr("abc")>>}
    [] c = "ConfigWithList" ->
         {<<<<"names">>, VList(<<VStr("a"), VInt(7)>>)>>, <<<<"names">>, VList(<<>>)>>,
          <<<<"rect">>, VList(Ints(<<1, 2>>))>>,
          <<<<"rect">>, VList(Ints(<<1, 2, 3>>))>>, <<<<"rect">>, VList(Ints(<<1>>))>>,
          <<<<"rect">>, VList(<<VStr("5"), VInt(6)>>)>>, <<<<"names">>, VInt(5)>>}
    [] c = "RecursiveConfig" ->
         {<<<<"small", "name">>, VStr("Ann")>>, <<<<"small", "age">>, VInt(99)>>,
          <<<<"lists", "rect">>, VList(Ints(<<1, 2>>))>>,
          <<<<"lists", "rect">>, VList(Ints(<<1, 2, 3>>))>>,
          <<<<"small", "bogus">>, VInt(1)>>, <<<<"small">>, VInt(5)>>}
    [] c = "ShiftedConfig" ->
         {<<<<"small", "name">>, VStr("Ann")>>}
    [] c = "ScreensConfig" ->
         {<<<<"windows">>, VList(<<VMap(<<<<"initial_size", VList(Ints(<<1, 2>>))>>>>)>>)>>,
          <<<<"windows">>, VList(<<VMap(<<<<"initial_size", VList(Ints(<<1, 2, 3>>))>>>>)>>)>>}
    [] c = "TaggedConfig" ->
         {<<<<"tags">>, VList(<<VStr("a")>>)>>}
    [] c = "ClashConfig" ->
         {<<<<"small_age">>, VInt(3)>>}
    [] c = "BareLeafConfig" ->
         {<<<<"count">>, VInt(2)>>}
    [] c = "BareRecordConfig" ->
         {<<<<"small", "name">>, VStr("Ann")>>}
    [] c = "PucotiConfig" ->
         {<<<<"ring_every">>, VInt(30)>>, <<<<"ring_count">>, VStr("3")>>,
          <<<<"window", "initial_size">>, VList(Ints(<<300, 100>>))>>,
          <<<<"run_at">>, VList(<<VMap(<<<<"at", VStr("-2m")>>>>)>>)>>,
          <<<<"run_at">>, VList(<<VMap(<<<<"bogus", VInt(1)>>>>)>>)>>}

\* values given on the command line, by path
CliLeaves(c) ==
  CASE c = "SmallConfig" -> {<<<<"age">>, VInt(40)>>, <<<<"name">>, VStr("Bob")>>}
    [] c = "RecursiveConfig" -> {<<<<"small", "age">>, VInt(40)>>}
    [] c = "ShiftedConfig" -> {<<<<"small", "age">>, VInt(40)>>}
    [] c = "PucotiConfig" ->
         {<<<<"ring_every">>, VInt(10)>>, <<<<"ring_count">>, VInt(5)>>,
          <<<<"window", "initial_size">>, VTuple(Ints(<<640, 480>>))>>}
    [] OTHER -> {}

\* the lists of at most n entries with distinct paths
Picks(cands, n) ==
  UNION {{q \in [1..m -> cands] : \A i, j \in 1..m : i < j => q[i][1] # q[j][1]} :
         m \in 0..n}

RECURSIVE NestPut(_, _, _)
NestPut(q, parts, value) ==
  IF Len(parts) = 1 THEN Put(q, parts[1], value)
  ELSE LET sub == IF HasKey(q, parts[1]) /\ Get(q, parts[1]).k = "map"
                  THEN Get(q, parts[1]).m ELSE <<>>
       IN Put(q, parts[1], VMap(NestPut(sub, Tail(parts), value)))

RECURSIVE NestAll(_, _)
NestAll(q, picks) ==
  IF Len(picks) = 0 THEN q
  ELSE NestAll(NestPut(q, picks[1][1], picks[1][2]), Tail(picks))

\* the nested dict that holds the picked entries
Nested(picks) == VMap(NestAll(<<>>, picks))

Overrides(c) == {Nested(q) : q \in Picks(TypedLeaves(c) \cup UnknownLeaves(c), MaxEntries)}

RawDocs(c) ==
  {Nested(q) : q \in Picks(RawLeaves(c) \cup {<<<<"bogus">>, VInt(1)>>}, MaxEntries)}
    \cup {VNone}

CommandLines(c) ==
  {VMap([i \in 1..Len(q) |-> <<normalise(q[i][1]), q[i][2]>>]) :
     q \in Picks(CliLeaves(c), MaxEntries)}

(* ---------------------------- state machine ---------------------------- *)
NoCli == VMap(<<>>)

Init ==
  /\ receiver \in {Construct(c, Required(c)) : c \in RootClasses}
  /\ op = "new"
  /\ arg = VNone
  /\ result = VNone
  /\ aliased = FALSE
  /\ cli = NoCli
  /\ handed = VNone
  /\ appCalls = 0
  \* before main() runs, no window, callback, server or search exists
  /\ app = "off"
  /\ callback = "off"
  /\ server = "off"
  /\ search = "off"

\* a tree is at hand on which no operation has been called yet
Fresh == op \in {"new", "adopt"}

\* merge as it would be if it assigned the new values to the fields of self
DoMergeInPlace(values) ==
  /\ Fresh
  /\ result' = merge(receiver, values)
  /\ receiver' = IF IsErr(result') THEN receiver ELSE result'
  /\ op' = "merge"
  /\ arg' = values
  /\ aliased' = ~IsErr(result')
  /\ cli' = NoCli
  /\ handed' = VNone
  /\ appCalls' = 0
  /\ UNCHANGED programVars

\* new = cfg.merge(values): the receiver is read, the return builds a new object
DoMerge(values) ==
  /\ Fresh
  /\ result' = merge(receiver, values)
  /\ op' = "merge"
  /\ arg' = values
  /\ aliased' = FALSE
  /\ cli' = NoCli
  /\ handed' = VNone
  /\ appCalls' = 0
  /\ UNCHANGED programVars
  /\ UNCHANGED receiver

\* new = cfg.load(data)
DoLoad(data) ==
  /\ Fresh
  /\ result' = load(receiver, data)
  /\ op' = "load"
  /\ arg' = data
  /\ aliased' = FALSE
  /\ cli' = NoCli
  /\ handed' = VNone
  /\ appCalls' = 0
  /\ UNCHANGED programVars
  /\ UNCHANGED receiver

\* cfg = new: the tree an operation returned is the receiver of the next one
Adopt ==
  /\ op \in {"merge", "load"}
  /\ result.k = "rec"
  /\ receiver' = result
  /\ op' = "adopt"
  /\ arg' = VNone
  /\ result' = VNone
  /\ aliased' = FALSE
  /\ cli' = NoCli
  /\ handed' = VNone
  /\ appCalls' = 0
  /\ UNCHANGED programVars

\* data = cls.load(cls.generate_default_config_yaml()), on an instance cls()
DumpLoad ==
  /\ op = "new"
  /\ op' = "dumpload"
  /\ arg' = Then(generate_default_config_yaml(receiver.cls), LAMBDA text : safe_load(text.q))
  /\ result' = Then(generate_default_config_yaml(receiver.cls),
                    LAMBDA text : load_text(receiver, text))
  /\ aliased' = FALSE
  /\ cli' = NoCli
  /\ handed' = VNone
  /\ appCalls' = 0
  /\ UNCHANGED programVars
  /\ UNCHANGED receiver

\* cfg().load(asdict(cfg()))
AsdictLoad ==
  /\ op = "new"
  /\ op' = "asdictload"
  /\ arg' = asdict(receiver)
  /\ result' = load(receiver, arg')
  /\ aliased' = FALSE
  /\ cli' = NoCli
  /\ handed' = VNone
  /\ appCalls' = 0
  /\ UNCHANGED programVars
  /\ UNCHANGED receiver

\* one run of the command made by @cls.mk_typer_cli(): f is called with the
\* tree decorated passes it
Invoke(document, passed) ==
  /\ op = "new"
  /\ op' = "cli"
  /\ arg' = document
  /\ cli' = passed
  /\ result' = run_command(receiver.cls, document, passed)
  /\ handed' = IF result'.k = "called" THEN result'.config ELSE VNone
  /\ appCalls' = IF result'.k = "called" THEN 1 ELSE 0
  /\ UNCHANGED programVars
  /\ aliased' = FALSE
  /\ UNCHANGED receiver

Next ==
  \/ Fresh /\ \E values \in Overrides(receiver.cls) : DoMerge(values)
  \/ Fresh /\ \E data \in RawDocs(receiver.cls) : DoLoad(data)
  \/ Adopt
  \/ DumpLoad
  \/ AsdictLoad
  \/ op = "new" /\ \E document \in RawDocs(receiver.cls) :
                     \E passed \in CommandLines(receiver.cls) : Invoke(document, passed)

Spec == Init /\ [][Next]_vars

(* ------------------------- vocabulary of the claims -------------------- *)
IsPrefix(a, b) == Len(a) <= Len(b) /\ SubSeq(b, 1, Len(a)) = a

RECURSIVE FieldPaths(_)
\* every path of field names of class c, record-typed fields included
FieldPaths(c) ==
  UNION {{<<fields(c)[i].name>>} \cup
         (IF is_config(fields(c)[i].type)
          THEN {<<fields(c)[i].name>> \o q : q \in FieldPaths(ConfigClass(fields(c)[i].type))}
          ELSE {}) : i \in 1..Len(fields(c))}

RECURSIVE TypeAt(_, _)
TypeAt(c, p) ==
  LET t == FieldNamed(c, p[1]).type
  IN IF Len(p) = 1 THEN t ELSE TypeAt(ConfigClass(t), Tail(p))

LeafPaths(c) == {p \in FieldPaths(c) : ~is_config(TypeAt(c, p))}

RECURSIVE KeyPaths(_)
\* the paths of the keys of a nested dict
KeyPaths(m) ==
  UNION {{<<m[i][1]>>} \cup
         (IF m[i][2].k = "map" THEN {<<m[i][1]>> \o q : q \in KeyPaths(m[i][2].m)} ELSE {})
         : i \in 1..Len(m)}

RECURSIVE HasPath(_, _), RawAt(_, _)
HasPath(d, p) ==
  /\ d.k = "map"
  /\ HasKey(d.m, p[1])
  /\ Len(p) > 1 => HasPath(Get(d.m, p[1]), Tail(p))

RawAt(d, p) == IF Len(p) = 1 THEN Get(d.m, p[1]) ELSE RawAt(Get(d.m, p[1]), Tail(p))

\* key path kp, read as a dotted path, names p, a field above p or a field below p
Related(c, p, kp) ==
  \E q \in FieldPaths(c) :
    Join(q, ".") = Join(kp, ".") /\ (IsPrefix(q, p) \/ IsPrefix(p, q))

Untouched(c, values, p) == \A kp \in KeyPaths(values.m) : ~Related(c, p, kp)

IsDefault(tree) == tree = Construct(tree.cls, <<>>)

\* the typed value the loader makes of raw data for a leaf of type t
Coerced(t, raw) == gather_updates(<<>>, raw, t, TRUE).val

\* the parameter of the generated command line for a flag
ParamOf(c, flag) ==
  LET signature == mk_typer_cli(c).v
  IN signature[CHOOSE i \in 1..Len(signature) : signature[i].flag = flag]

Dotted(path) ==
  Join([i \in 1..Len(path) |-> IF path[i].k = "idx" THEN ToString(path[i].n) ELSE path[i].s],
       ".")

RECURSIVE Defects(_, _, _)
\* what is wrong with raw data for declared type t, anywhere below path
Defects(path, data, t) ==
  IF t.k = "annot" THEN Defects(path, data, t.of)
  ELSE IF t.k = "rec"
  THEN IF data.k # "map" THEN {[what |-> "shape", at |-> Dotted(path), info |-> "mapping"]}
       ELSE UNION {IF data.m[i][1] \notin FieldNames(t.cls)
                   THEN {[what |-> "unknown",
                          at |-> Dotted(Append(path, PName(data.m[i][1]))),
                          info |-> valid_fields(t.cls)]}
                   ELSE Defects(Append(path, PName(data.m[i][1])), data.m[i][2],
                                FieldNamed(t.cls, data.m[i][1]).type)
                   : i \in 1..Len(data.m)}
  ELSE IF t.k \in {"list", "tuple"}
  THEN IF data.k \notin {"list", "tuple"}
       THEN {[what |-> "shape", at |-> Dotted(path), info |-> "sequence"]}
       ELSE IF t.k = "tuple" /\ Len(t.args) # Len(data.q)
       THEN {[what |-> "arity", at |-> Dotted(path), info |-> ToString(Len(t.args))]}
       ELSE UNION {Defects(Append(path, PIdx(i - 1)), data.q[i],
                           IF t.k = "tuple" THEN t.args[i] ELSE t.elem)
                   : i \in 1..Len(data.q)}
  ELSE IF IsErr(Convert(t, data))
  THEN {[what |-> "convert", at |-> Dotted(path), info |-> t.k]}
  ELSE {}

LoadDefects == Defects(<<>>, arg, TyRec(receiver.cls))

\* the override keys that name no field of the schema at their level
Unresolved(c, values) == {kp \in KeyPaths(values.m) : kp \notin FieldPaths(c)}

RECURSIVE Pruned(_, _)
\* the overrides without the keys that name no field
Pruned(c, m) ==
  IF Len(m) = 0 THEN <<>>
  ELSE LET rest == Pruned(c, Tail(m))
           key == m[1][1]
       IN IF key \notin FieldNames(c) THEN rest
          ELSE IF is_config(FieldNamed(c, key).type) /\ m[1][2].k = "map"
          THEN <<<<key, VMap(Pruned(ConfigClass(FieldNamed(c, key).type), m[1][2].m))>>>>
               \o rest
          ELSE <<m[1]>> \o rest

(* ------------------------------- claims -------------------------------- *)
\* C1 (as claimed): after merge(tree, overrides) returns, every leaf path that
\* is neither a prefix of nor prefixed by a key of the overrides holds in the
\* result the value it holds in the receiver, whatever the receiver holds.
C1_MergeLocality ==
  (op = "merge" /\ result.k = "rec") =>
    \A p \in LeafPaths(receiver.cls) :
      Untouched(receiver.cls, arg, p) => get(result, p) = get(receiver, p)

\* C2 (as claimed): t.merge({}) is equal to t for any tree t.
C2_MergeIdentity ==
  (op = "merge" /\ arg = VMap(<<>>)) => result = receiver

\* C3 (as claimed): in the CLI wrapper, a leaf whose persisted value v differs
\* from the schema default d and whose flag was passed with c # v holds c in
\* the tree handed to the application.
C3_CliPrecedence ==
  (op = "cli" /\ result.k = "called") =>
    \A i \in 1..Len(cli.m) :
      LET prm == ParamOf(receiver.cls, cli.m[i][1])
          c == cli.m[i][2]
      IN (/\ HasPath(arg, prm.parts)
          /\ Coerced(prm.type, RawAt(arg, prm.parts)) # prm.default
          /\ c # Coerced(prm.type, RawAt(arg, prm.parts)))
         => get(handed, prm.parts) = c

\* C4 (as claimed): in the CLI wrapper, every leaf whose flag was not passed
\* holds, in the tree handed to the application, the persisted document's
\* value, or the schema default when the document does not name it.
C4_UnpassedKeepsPersisted ==
  (op = "cli" /\ result.k = "called") =>
    \A i \in 1..Len(mk_typer_cli(receiver.cls).v) :
      LET prm == mk_typer_cli(receiver.cls).v[i]
      IN ~HasKey(cli.m, prm.flag) =>
           get(handed, prm.parts) =
             IF HasPath(arg, prm.parts) THEN Coerced(prm.type, RawAt(arg, prm.parts))
             ELSE prm.default

\* C5 (as claimed): for every schema S, loading the document made by
\* S.generate_default_config_yaml() onto S() yields a tree equal to S().
C5_RoundTrip ==
  op = "dumpload" => result = receiver

\* C6 (as claimed): t.load(raw) holds the coerced raw value at every leaf raw
\* names and t's own value at every other leaf, for any receiver t.
C6_PartialLoadPatch ==
  (op = "load" /\ result.k = "rec") =>
    \A p \in LeafPaths(receiver.cls) :
      get(result, p) =
        IF HasPath(arg, p) THEN Coerced(TypeAt(receiver.cls, p), RawAt(arg, p))
        ELSE get(receiver, p)

C8_UnknownOverrideFails ==
  (op = "merge" /\ Unresolved(receiver.cls, arg) # {}) => IsErr(result)

\* C8 (amended): merge validates no path: override keys that name no field are
\* ignored. The outcome of the call is that of the merge of the overrides
\* without those keys, no error is raised for them, and the tree returned
\* holds every override that does name a leaf.
C8_UnknownOverrideIgnored ==
  (op = "merge" /\ Unresolved(receiver.cls, arg) # {}) =>
    /\ result = merge(receiver, VMap(Pruned(receiver.cls, arg.m)))
    /\ IsErr(result) => result.what # "Unknown field"
    /\ result.k = "rec" =>
         \A p \in LeafPaths(receiver.cls) : HasPath(arg, p) => get(result, p) = RawAt(arg, p)

\* C8 witness: merge has returned for overrides that hold both a key naming no
\* field and a key naming a leaf.
C8_Witness ==
  /\ op = "merge"
  /\ Unresolved(receiver.cls, arg) # {}
  /\ \E p \in LeafPaths(receiver.cls) : HasPath(arg, p)
  /\ result.k = "rec"

\* C9 (as claimed): load of raw data whose only defect is a key that is no
\* declared field, at any depth and also inside a list, fails with the error
\* that names the key's dotted path and lists the valid fields of that level.
C9_UnknownFieldReported ==
  (op = "load" /\ LoadDefects # {} /\ \A d \in LoadDefects : d.what = "unknown") =>
    /\ IsErr(result)
    /\ \E d \in LoadDefects :
         result.what = "Unknown field" /\ result.at = d.at /\ result.info = d.info

\* C10 (as claimed): load of raw data whose only defect is a sequence of the
\* wrong length for a tuple field of N types fails with the error citing the
\* expected size N; a tuple field given N elements holds them coerced.
C10_TupleArity ==
  /\ (op = "load" /\ LoadDefects # {} /\ \A d \in LoadDefects : d.what = "arity") =>
       /\ IsErr(result)
       /\ \E d \in LoadDefects : result.what = "Expected a tuple of size " \o d.info
  /\ (op = "load" /\ LoadDefects = {}) =>
       /\ result.k = "rec"
       /\ \A p \in LeafPaths(receiver.cls) :
            (TypeAt(receiver.cls, p).k = "tuple" /\ HasPath(arg, p)) =>
              get(result, p) =
                VTuple([i \in 1..Len(RawAt(arg, p).q) |->
                          Convert(TypeAt(receiver.cls, p).args[i], RawAt(arg, p).q[i])])

\* the entries load records in to_update for the raw data it was given
ToUpdate == gather_updates(<<>>, arg, TyRec(receiver.cls), FALSE).upd

SequencePaths(c) == {p \in LeafPaths(c) : TypeAt(c, p).k \in {"list", "tuple"}}

\* C11: a list or tuple field named in the raw data of a load, or in the
\* overrides of a merge, holds in the returned tree exactly the provided
\* sequence (coerced, for load), whatever the receiver held and also when the
\* sequence is empty; and load records no update whose path goes inside a list.
C11_SequenceReplaced ==
  /\ (op = "merge" /\ result.k = "rec") =>
       \A p \in SequencePaths(receiver.cls) :
         HasPath(arg, p) => get(result, p) = RawAt(arg, p)
  /\ (op = "load" /\ result.k = "rec") =>
       /\ \A p \in SequencePaths(receiver.cls) :
            HasPath(arg, p) => get(result, p) = Coerced(TypeAt(receiver.cls, p), RawAt(arg, p))
       /\ \A i \in 1..Len(ToUpdate) :
            \A j \in 1..Len(ToUpdate[i][1]) : ToUpdate[i][1][j].k = "name"

\* C11 witness: a receiver whose list field holds elements was given the
\* empty list for that field, and the returned tree holds the empty list.
C11_Witness ==
  /\ op \in {"merge", "load"}
  /\ result.k = "rec"
  /\ \E p \in SequencePaths(receiver.cls) :
       /\ HasPath(arg, p)
       /\ RawAt(arg, p).q = <<>>
       /\ get(receiver, p).q # <<>>
       /\ get(result, p).q = <<>>

\* C12 (as claimed): load of raw data whose only defect is a primitive value
\* that its declared type cannot be constructed from fails with an error that
\* reports the dotted path of that value.
C12_ConversionReported ==
  (op = "load" /\ LoadDefects # {} /\ \A d \in LoadDefects : d.what = "convert") =>
    /\ IsErr(result)
    /\ \E d \in LoadDefects : result.at = d.at

\* C13 (as claimed): load of raw data whose only defect is a value of the
\* wrong collection kind (a non-sequence for a list or tuple field, a
\* non-mapping for a record field or for the whole document) fails with the
\* ValueError that reports the expected shape and the path of that value.
C13_ShapeReported ==
  (op = "load" /\ LoadDefects # {} /\ \A d \in LoadDefects : d.what = "shape") =>
    /\ IsErr(result)
    /\ \E d \in LoadDefects :
         /\ result.exc = "ValueError"
         /\ result.at = d.at
         /\ result.what = (IF d.info = "sequence" THEN "Expected a list"
                           ELSE "Expected a mapping")

\* what loading the persisted document onto cls() gives in a CLI run
Persisted == Then(Construct(receiver.cls, <<>>), LAMBDA self : load(self, arg))

\* C14: in a run of the CLI wrapper, when the load of the persisted document
\* fails the application function is not called and no tree is handed over or
\* returned; the function is called at most once, and only with the tree of a
\* load that succeeded.
C14_FailFast ==
  /\ appCalls \in {0, 1}
  /\ op # "cli" => appCalls = 0
  /\ op = "cli" =>
       /\ IsErr(Persisted) => (appCalls = 0 /\ handed = VNone /\ IsErr(result))
       /\ appCalls = 1 => (Persisted.k = "rec" /\ handed = Persisted)

\* C14 witness: a CLI run whose persisted document does not load has ended
\* with the load's error and without a call of the application function.
C14_Witness ==
  /\ op = "cli"
  /\ LoadDefects # {}
  /\ IsErr(result)
  /\ appCalls = 0

\* the declared type without its Annotated description
Bare(t) == IF t.k = "annot" THEN t.of ELSE t

\* C15 (as claimed): the gather_parameters call of mk_typer_cli returns, once
\* each, exactly the dotted paths of the fields reachable through nested
\* records whose declared type is neither a record nor a list nor a mapping,
\* each with its declared type.
C15_FlattenedSurface ==
  op = "cli" =>
  LET params == gather_parameters(receiver.cls, <<>>)
  IN /\ {params[i].parts : i \in 1..Len(params)} =
          {p \in LeafPaths(receiver.cls) : Bare(TypeAt(receiver.cls, p)).k \notin {"list", "dict"}}
     /\ \A i \in 1..Len(params) :
          /\ params[i].type = TypeAt(receiver.cls, params[i].parts)
          /\ params[i].name = Join(params[i].parts, ".")
          /\ \A j \in 1..Len(params) : params[i].parts = params[j].parts => i = j

\* two distinct dotted paths of the flattened surface of class c give the
\* same name once '.' is replaced by '_'
Collides(c) ==
  LET params == gather_parameters(c, <<>>)
  IN \E i, j \in 1..Len(params) :
       /\ params[i].name # params[j].name
       /\ Join(params[i].parts, "_") = Join(params[j].parts, "_")

\* C16: when two distinct dotted paths normalise to one flag name,
\* mk_typer_cli raises its ValueError while the signature is built, so that no
\* invocation loads a document or calls the application; when it does not
\* raise, the flags are pairwise distinct, one per dotted path, and every flag
\* is mapped back to the dotted path it was made from.
C16_FlagCollision ==
  op = "cli" =>
    LET params == gather_parameters(receiver.cls, <<>>)
        made == mk_typer_cli(receiver.cls)
    IN /\ Collides(receiver.cls) =>
            /\ IsErr(made)
            /\ made.exc = "ValueError"
            /\ result = made
            /\ appCalls = 0
       /\ ~IsErr(made) =>
            /\ Len(made.v) = Len(params)
            /\ \A i, j \in 1..Len(made.v) : made.v[i].flag = made.v[j].flag => i = j
            /\ \A i \in 1..Len(made.v) :
                 normalised_to_true_name(made.v, Join(params[i].parts, "_")) = params[i].name

\* C16 witness: a command was invoked for a schema with colliding paths and
\* ended with the error of the signature's construction.
C16_Witness ==
  /\ op = "cli"
  /\ Collides(receiver.cls)
  /\ IsErr(result)
  /\ result.what = "There are two config fields that normalise to"

\* the lines of the document generated for class c
Doc(c) == generate_default_config_yaml(c).q

\* the lines of document d that open a top-level field
TopLines(d) == {i \in 1..Len(d) : d[i].ind = 0 /\ d[i].kind # "comment"}

\* the line that opens the n-th top-level field of document d
FieldLine(d, n) ==
  CHOOSE i \in TopLines(d) : Cardinality({j \in TopLines(d) : j < i}) = n - 1

\* the number of lines the block under a field of type t takes
BlockLen(t) == IF is_config(t) THEN Len(Doc(ConfigClass(t))) ELSE 0

\* the document of class c is laid out as C17 says
Layout(c) ==
  LET d == Doc(c)
      flds == fields(c)
      at(n) == FieldLine(d, n)
  IN /\ Cardinality(TopLines(d)) = Len(flds)
     /\ ClassDoc(c) # "" => d[1] = Comment(ClassDoc(c))
     /\ \A n \in 1..Len(flds) :
          /\ d[at(n)].name = flds[n].name
          /\ flds[n].type.k = "annot" =>
               (at(n) > 1 /\ d[at(n) - 1] = Comment(flds[n].type.doc))
          /\ IF is_config(flds[n].type)
             THEN /\ d[at(n)] = Block(flds[n].name)
                  /\ SubSeq(d, at(n) + 1, at(n) + BlockLen(flds[n].type))
                       = indent(Doc(ConfigClass(flds[n].type)))
             ELSE d[at(n)] = to_nice_yaml(flds[n].name, flds[n].default)
     /\ \A j \in 1..Len(d) :
          \/ j = 1 /\ ClassDoc(c) # ""
          \/ \E n \in 1..Len(flds) :
               \/ j = at(n) - 1 /\ flds[n].type.k = "annot"
               \/ at(n) <= j /\ j <= at(n) + BlockLen(flds[n].type)

\* C17: the generated document of every schema holds its fields in
\* declaration order, a 'name: value' line per leaf and a 'name:' line
\* followed by the indented document of the nested class per record field, a
\* field's description as a comment immediately before the field, the class
\* docstring (unless generated by dataclass) as the first line, and no other
\* line.
C17_DocumentLayout ==
  op = "dumpload" =>
    \A c \in ClassNames : ~IsErr(generate_default_config_yaml(c)) => Layout(c)

\* C17 witness: a document was generated for a schema that has a docstring and
\* a described record field, and it was loaded back.
C17_Witness ==
  /\ op = "dumpload"
  /\ ClassDoc(receiver.cls) # ""
  /\ \E i \in 1..Len(fields(receiver.cls)) :
       /\ fields(receiver.cls)[i].type.k = "annot"
       /\ is_config(fields(receiver.cls)[i].type)
  /\ result.k = "rec"

\* C18 (as claimed): the document generated for schema S describes S()
\* exactly: parsed, it holds at every leaf path, also below record fields, the
\* serialised value that S() holds at that path.
C18_NestedBlockOfDefault ==
  op = "dumpload" =>
    /\ arg.k = "map"
    /\ \A p \in LeafPaths(receiver.cls) :
         /\ HasPath(arg, p)
         /\ RawAt(arg, p) = to_nice_yaml(p[Len(p)], get(Construct(receiver.cls, <<>>), p)).val

\* C19: loading onto a default tree the raw data asdict makes of that tree
\* returns a tree equal to it, for flat schemas, schemas with list and tuple
\* fields and schemas with nested records.
C19_AsdictLoadIdentity ==
  op = "asdictload" => result = receiver

\* C19 witness: the data of a default tree with a tuple field inside a nested
\* record was loaded and a tree was returned.
C19_Witness ==
  /\ op = "asdictload"
  /\ result.k = "rec"
  /\ \E p \in SequencePaths(receiver.cls) :
       Len(p) > 1 /\ TypeAt(receiver.cls, p).k = "tuple" /\ RawAt(arg, p).k = "tuple"

RECURSIVE FieldAt(_, _)
\* the field a path of field names leads to
FieldAt(c, p) ==
  IF Len(p) = 1 THEN FieldNamed(c, p[1])
  ELSE FieldAt(ConfigClass(FieldNamed(c, p[1]).type), Tail(p))

\* schema c declares, at some depth, a leaf field without a default
HasBareLeaf(c) ==
  \E p \in FieldPaths(c) :
    ~is_config(FieldAt(c, p).type) /\ FieldAt(c, p).default.k = "missing"

\* C20 (as claimed): a schema with a leaf field that has no default is
\* rejected, by the document generator and when the command is built, and a
\* schema whose fields without a default are all records is accepted by both.
C20_DefaultsRequired ==
  /\ op = "dumpload" =>
       (IsErr(generate_default_config_yaml(receiver.cls)) <=> HasBareLeaf(receiver.cls))
  /\ op = "cli" =>
       /\ HasBareLeaf(receiver.cls) => (IsErr(result) /\ appCalls = 0)
       /\ (~HasBareLeaf(receiver.cls) /\ ~Collides(receiver.cls)) =>
            ~IsErr(mk_typer_cli(receiver.cls))

(* ------------------------------- main loop ----------------------------- *)
\* time() is counted in half seconds since the epoch; the durations of the
\* code (timer_end, initial_duration, start, ring_every) are whole seconds
Half == 2

\* time() when main() starts: later than every ring_every of the bounds
Epoch == 1000

\* round(x) of Python, for x = halves / 2: a half goes to the even neighbour
round(halves) ==
  IF halves % 2 = 0 THEN halves \div 2
  ELSE LET low == (halves - 1) \div 2 IN IF low % 2 = 0 THEN low ELSE low + 1

compute_timer_end(timer, start, now) == timer + (round(now + 1) - start)

MAIN == "main"
HELP == "help"
PURPOSE_HISTORY == "purpose_history"
ENTERING_PURPOSE == "entering_purpose"
Scene == {MAIN, HELP, PURPOSE_HISTORY, ENTERING_PURPOSE}

POSITIONS == << <<-5, -5>>, <<5, 5>>, <<5, -5>>, <<-5, 5>> >>
NUMBER_KEYS == {"0", "1", "2", "3", "4", "5", "6", "7", "8", "9"}
get_number_from_key(key) ==
  CASE key = "0" -> 0 [] key = "1" -> 1 [] key = "2" -> 2 [] key = "3" -> 3
    [] key = "4" -> 4 [] key = "5" -> 5 [] key = "6" -> 6 [] key = "7" -> 7
    [] key = "8" -> 8 [] key = "9" -> 9

QUIT == "QUIT"
TEXTINPUT == "TEXTINPUT"
KEYDOWN == "KEYDOWN"
Key(key, shift, ctrl) ==
  [type |-> KEYDOWN, key |-> key, shift |-> shift, ctrl |-> ctrl, text |-> ""]
Text(text) ==
  [type |-> TEXTINPUT, key |-> "", shift |-> FALSE, ctrl |-> FALSE, text |-> text]
Quit == [type |-> QUIT, key |-> "", shift |-> FALSE, ctrl |-> FALSE, text |-> ""]

\* re.sub(r"\S*\s*$", "", purpose), on the text as a sequence of characters
RECURSIVE strip_spaces(_)
strip_spaces(text) ==
  IF text # <<>> /\ text[Len(text)] = " "
  THEN strip_spaces(SubSeq(text, 1, Len(text) - 1)) ELSE text

RECURSIVE strip_word(_)
strip_word(text) ==
  IF text # <<>> /\ text[Len(text)] # " "
  THEN strip_word(SubSeq(text, 1, Len(text) - 1)) ELSE text

delete_last_word(purpose) == strip_word(strip_spaces(purpose))

\* the entries of the history that the history scene lists
shown_entries(purpose_history) ==
  Len(SelectSeq(purpose_history, LAMBDA text : text # <<>>))

\* atexit: save_last_purpose
save_last_purpose(a) ==
  IF a.purpose # <<>> THEN Append(a.history_file, <<>>) ELSE a.history_file

\* a number key as it would act if it set the countdown alone
press_number_keeps_target(a, event) ==
  LET minutes == 60 * get_number_from_key(event.key)
      new_duration == IF event.shift THEN minutes * 10 ELSE minutes
  IN [a EXCEPT !.timer_end = compute_timer_end(new_duration, a.start, a.now)]

\* "elif event.key in constants.NUMBER_KEYS"
press_number(a, event) ==
  LET minutes == 60 * get_number_from_key(event.key)
      new_duration == IF event.shift THEN minutes * 10 ELSE minutes
  IN [a EXCEPT !.timer_end = compute_timer_end(new_duration, a.start, a.now),
               !.initial_duration = new_duration]

\* the body of "for event in pygame.event.get()" for one event
handle_event(a, event) ==
  IF event.type = QUIT
  THEN [a EXCEPT !.running = FALSE, !.history_file = save_last_purpose(a)]
  ELSE IF event.type = TEXTINPUT /\ a.scene = ENTERING_PURPOSE
  THEN [a EXCEPT !.purpose = a.purpose \o event.text]
  ELSE IF event.type = KEYDOWN
  THEN IF a.scene = HELP
       THEN [a EXCEPT !.scene = MAIN]
       ELSE IF a.scene = ENTERING_PURPOSE
       THEN IF event.key = "backspace"
            THEN IF event.ctrl
                 THEN [a EXCEPT !.purpose = delete_last_word(a.purpose)]
                 ELSE [a EXCEPT !.purpose =
                         SubSeq(a.purpose, 1, Len(a.purpose) - 1)]
            ELSE IF event.key \in {"return", "kp_enter", "escape"}
                 THEN [a EXCEPT !.scene = MAIN]
                 ELSE a
       ELSE IF a.scene = PURPOSE_HISTORY
       THEN IF event.key = "j"
            THEN [a EXCEPT !.history_scroll =
                    IF a.history_scroll - 1 > 0 THEN a.history_scroll - 1 ELSE 0]
            ELSE IF event.key = "k"
            THEN LET most == shown_entries(a.purpose_history) - a.history_lines
                 IN [a EXCEPT !.history_scroll =
                       IF most < a.history_scroll + 1 THEN most
                       ELSE a.history_scroll + 1]
            ELSE IF event.key = "l"
            THEN [a EXCEPT !.show_relative_time = ~a.show_relative_time]
            ELSE [a EXCEPT !.scene = MAIN]
       ELSE IF event.key = "j"
       THEN [a EXCEPT !.timer_end =
               a.timer_end - (IF event.shift THEN 60 * 5 ELSE 60)]
       ELSE IF event.key = "k"
       THEN [a EXCEPT !.timer_end =
               a.timer_end + (IF event.shift THEN 60 * 5 ELSE 60)]
       ELSE IF event.key \in NUMBER_KEYS
       THEN press_number(a, event)
       ELSE IF event.key = "r"
       THEN [a EXCEPT !.timer_end =
               compute_timer_end(a.initial_duration, a.start, a.now)]
       ELSE IF event.key \in {"minus", "plus", "equals"}
       THEN a
       ELSE IF event.key = "p"
       THEN [a EXCEPT !.position = (a.position + 1) % Len(POSITIONS)]
       ELSE IF event.key = "t"
       THEN [a EXCEPT !.hide_total = ~a.hide_total]
       ELSE IF event.key \in {"return", "kp_enter"}
       THEN [a EXCEPT !.scene = ENTERING_PURPOSE]
       ELSE IF event.key \in {"h", "?"}
       THEN [a EXCEPT !.scene = HELP]
       ELSE IF event.key = "l"
       THEN [a EXCEPT !.scene = PURPOSE_HISTORY]
       ELSE a
  ELSE a

\* after the events: a purpose that was being entered is recorded
record_purpose(a) ==
  IF a.last_scene = ENTERING_PURPOSE /\ a.scene # a.last_scene
  THEN IF a.purpose_history = <<>>
          \/ a.purpose # a.purpose_history[Len(a.purpose_history)]
       THEN [a EXCEPT !.purpose_history = Append(a.purpose_history, a.purpose),
                      !.history_file = Append(a.history_file, a.purpose)]
       ELSE a
  ELSE a

\* remaining = timer_end - (time() - start), in half seconds
time_left(a) == Half * a.timer_end - (a.now - Half * a.start)

\* the bell as it would ring if nb_rings were not compared with ring_count
ring_unlimited(a) ==
  LET remaining == time_left(a)
  IN IF remaining < 0 /\ a.now - a.last_rung > Half * a.config.ring_every
     THEN [a EXCEPT !.last_rung = a.now,
                    !.nb_rings = a.nb_rings + 1,
                    !.bells = a.bells + 1,
                    !.soon = /\ a.last_bell # 0
                             /\ a.now - a.last_bell <= Half * a.config.ring_every,
                    !.last_bell = a.now,
                    !.timer_end =
                       IF a.config.restart
                       THEN compute_timer_end(a.initial_duration, a.start, a.now)
                       ELSE a.timer_end]
     ELSE IF remaining > 0
     THEN [a EXCEPT !.nb_rings = 0, !.last_rung = 0, !.bells = 0]
     ELSE a

\* "Ring the bell if the time is up", with the restart it carries
ring(a) ==
  LET remaining == time_left(a)
  IN IF remaining < 0
        /\ a.now - a.last_rung > Half * a.config.ring_every
        /\ a.nb_rings # a.config.ring_count
     THEN [a EXCEPT !.last_rung = a.now,
                    !.nb_rings = a.nb_rings + 1,
                    !.bells = a.bells + 1,
                    !.soon = /\ a.last_bell # 0
                             /\ a.now - a.last_bell <= Half * a.config.ring_every,
                    !.last_bell = a.now,
                    !.timer_end =
                       IF a.config.restart
                       THEN compute_timer_end(a.initial_duration, a.start, a.now)
                       ELSE a.timer_end]
     ELSE IF remaining > 0
     THEN [a EXCEPT !.nb_rings = 0, !.last_rung = 0, !.bells = 0]
     ELSE a

\* what one turn of "while True" does once its events are handled
frame(a) == ring(record_purpose(a))

\* clock.tick(30), and "last_scene = scene" of the next turn
tick(a, dt) ==
  [a EXCEPT !.now = a.now + dt, !.last_scene = a.scene]

\* main(config) up to "while True", with purpose_history read from the file.
\* Beside the variables of main, the record keeps what was heard: bells counts
\* the bells since the last turn with remaining > 0, last_bell is the time of
\* the last bell, soon tells that it rang within ring_every seconds of the
\* bell before it, and recorded is the history that the departures from
\* ENTERING_PURPOSE call for: the purpose of each, unless it repeats the last
main(config, history, now) ==
  [running |-> TRUE,
   config |-> config,
   position |-> 0,
   initial_duration |-> config.initial_timer,
   start |-> round(now),
   timer_end |-> config.initial_timer,
   last_rung |-> 0,
   nb_rings |-> 0,
   purpose_history |-> history,
   history_file |-> history,
   purpose |-> <<>>,
   history_lines |-> 10,
   history_scroll |-> 0,
   show_relative_time |-> TRUE,
   hide_total |-> FALSE,
   last_scene |-> MAIN,
   scene |-> MAIN,
   now |-> now,
   bells |-> 0,
   last_bell |-> 0,
   soon |-> FALSE,
   recorded |-> history]

(* ------------------------- the loop as a machine ----------------------- *)
\* half seconds the loop is followed for
MaxElapsed == 6
\* seconds that timer_end is followed up to, either side of initial_duration
MaxTimer == 300
\* characters of a purpose, entries of a history
MaxPurpose == 2
MaxHistory == 2

\* no configuration tree is being worked on
NoTree ==
  /\ receiver = VNone
  /\ op = "off"
  /\ arg = VNone
  /\ result = VNone
  /\ aliased = FALSE
  /\ cli = NoCli
  /\ handed = VNone
  /\ appCalls = 0

Config(initial_timer, ring_every, ring_count, restart) ==
  [initial_timer |-> initial_timer, ring_every |-> ring_every,
   ring_count |-> ring_count, restart |-> restart]

InBounds(a) ==
  /\ a.timer_end - a.initial_duration <= MaxTimer
  /\ a.initial_duration - a.timer_end <= MaxTimer
  /\ Len(a.purpose) <= MaxPurpose
  /\ Len(a.purpose_history) <= MaxHistory
  /\ Len(a.recorded) <= MaxHistory
  /\ a.now <= Epoch + MaxElapsed

\* what an event that leaves ENTERING_PURPOSE adds to recorded
departure(before, after) ==
  IF before.scene = ENTERING_PURPOSE /\ after.scene # ENTERING_PURPOSE
     /\ (after.recorded = <<>>
           \/ after.purpose # after.recorded[Len(after.recorded)])
  THEN [after EXCEPT !.recorded = Append(after.recorded, after.purpose)]
  ELSE after

\* one event of pygame.event.get() is handled
HandleEvent(event) ==
  /\ app.running
  /\ app' = departure(app, handle_event(app, event))
  /\ InBounds(app')
  /\ UNCHANGED <<configVars, callback, server, search>>

\* the rest of the turn, and dt half seconds until the next one
EndFrame(dt) ==
  /\ app.running
  /\ app' = tick(frame(app), dt)
  /\ InBounds(app')
  /\ UNCHANGED <<configVars, callback, server, search>>

\* the timer: keys of the main scene, and turns of the loop some time apart
BellConfigs ==
  {Config(t, e, c, r) : t \in {1}, e \in {1, 2}, c \in {-1, 0, 2},
                        r \in BOOLEAN}
BellEvents ==
  {Key(key, FALSE, FALSE) : key \in {"j", "k", "0", "1", "r"}}
    \cup {Key("j", TRUE, FALSE), Key("1", TRUE, FALSE)}
BellSteps == {0, 1, 3}

BellInit ==
  /\ NoTree
  /\ app \in {main(config, <<>>, now) : config \in BellConfigs,
                                        now \in {Epoch + 1}}
  /\ callback = "off"
  /\ server = "off"
  /\ search = "off"

BellNext ==
  \/ \E event \in BellEvents : HandleEvent(event)
  \/ \E dt \in BellSteps : EndFrame(dt)

BellSpec == BellInit /\ [][BellNext]_vars

(* --------------------------- claims on the bell ------------------------ *)
\* the turn of the loop that EndFrame ends sees the countdown below zero
Expired == time_left(app) < 0
\* that turn plays the bell
Plays == app'.bells = app.bells + 1
\* more than ring_every seconds have passed since the bell last rang
Due == app.now - app.last_rung > Half * app.config.ring_every

\* C21: with ring_count >= 0 the bells of one expired period, and nb_rings,
\* stay between 0 and ring_count; with ring_count = -1 every turn of the loop
\* that finds the countdown expired and the last bell more than ring_every
\* seconds old plays a bell
C21_BellLimit ==
  /\ [](app.config.ring_count >= 0 =>
          /\ 0 <= app.nb_rings /\ app.nb_rings <= app.config.ring_count
          /\ 0 <= app.bells /\ app.bells <= app.config.ring_count)
  /\ [][(\E dt \in BellSteps : EndFrame(dt))
          /\ app.config.ring_count = -1 /\ Expired /\ Due => Plays]_vars

\* the limit is reached: two bells rang and ring_count is 2
C21_Witness ==
  /\ app.config.ring_count = 2
  /\ app.bells = 2
  /\ app.nb_rings = 2
  /\ time_left(app) < 0

\* C22: with restart enabled, a turn of the loop that finds the countdown
\* expired (and the last bell more than ring_every seconds old) sets the
\* timer back to the initial duration, whatever ring_count and ring_every are
C22_RestartOnExpiry ==
  [][(\E dt \in BellSteps : EndFrame(dt))
       /\ app.config.restart /\ Expired /\ Due
       => app'.timer_end =
            compute_timer_end(app.initial_duration, app.start, app.now)]_vars

(* ------------------------ claims on the timer keys --------------------- *)
\* the duration a number key asks for, in seconds
Asked(event) ==
  60 * get_number_from_key(event.key) * (IF event.shift THEN 10 ELSE 1)

\* the countdown shows the duration, up to the second that compute_timer_end
\* rounds the time up to
Shows(a, duration) ==
  /\ Half * duration <= time_left(a)
  /\ time_left(a) <= Half * (duration + 1)

SceneEvents ==
  {Key(key, FALSE, FALSE) :
     key \in {"j", "k", "l", "h", "x",
              "return", "kp_enter", "escape", "backspace"}}
    \cup {Key("backspace", FALSE, TRUE), Text(<<"a">>), Quit}
SceneSteps == {0}
Histories == {<<>>, << <<"a">> >>}

SceneInit ==
  /\ NoTree
  /\ app \in {main(Config(60, 20, -1, FALSE), history, Epoch + 1) :
                history \in Histories}
  /\ callback = "off"
  /\ server = "off"
  /\ search = "off"

SceneNext ==
  \/ \E event \in SceneEvents : HandleEvent(event)
  \/ \E dt \in SceneSteps : EndFrame(dt)

SceneSpec == SceneInit /\ [][SceneNext]_vars

(* ------------------------- claims on the scenes ------------------------ *)
\* C28: every departure from ENTERING_PURPOSE appends its purpose to the
\* history in memory and to the history file when the history is empty or its
\* last text differs, and only then: once the turn of the loop is over, both
\* hold what the departures call for, in their order
C28_DeparturesRecorded ==
  [][(\E dt \in SceneSteps : EndFrame(dt))
       => /\ app'.purpose_history = app'.recorded
          /\ app'.history_file = app'.recorded]_vars

\* C29: in the history scene the scroll offset stays within
\* 0 .. max(0, n - history_lines), n the entries with a text
C29_ScrollInRange ==
  LET n == shown_entries(app.purpose_history)
      most == IF n - app.history_lines > 0 THEN n - app.history_lines ELSE 0
  IN app.scene = PURPOSE_HISTORY
       => 0 <= app.history_scroll /\ app.history_scroll <= most

(* --------------------- the loop of the single-file program ------------- *)
\* pucoti.py keeps time() unrounded: start and timer are in half seconds here.
\* The window is window_size[1] = 70 high, scaled by WINDOW_SCALE zoom times
WINDOW_SCALE == <<12, 10>>

\* Scene.mk_layout(...).get("time"): is the countdown drawn at all
has_time_rect(scene, zoom) ==
  LET below60 == zoom < 0
  IN IF scene \in {HELP, PURPOSE_HISTORY} THEN FALSE
     ELSE IF scene = ENTERING_PURPOSE THEN ~below60
     ELSE TRUE

\* event.unicode of a KEYDOWN
unicode(event) ==
  IF event.key \in {"return", "kp_enter", "escape", "backspace"} THEN <<>>
  ELSE IF event.key = "minus" THEN <<"-">>
  ELSE IF event.key = "equals" THEN <<"=">>
  ELSE <<event.key>>

\* the keys of the main scene
legacy_main_key(a, event) ==
  IF event.key = "j" THEN [a EXCEPT !.timer = a.timer - Half * 60]
  ELSE IF event.key = "k" THEN [a EXCEPT !.timer = a.timer + Half * 60]
  ELSE IF event.key = "r"
  THEN [a EXCEPT !.timer = Half * a.initial_duration + (a.now - a.start) + Half * 1]
  ELSE IF event.key = "minus" THEN [a EXCEPT !.zoom = a.zoom - 1]
  ELSE IF event.key = "equals" THEN [a EXCEPT !.zoom = a.zoom + 1]
  ELSE IF event.key = "p"
  THEN [a EXCEPT !.position = (a.position + 1) % Len(POSITIONS)]
  ELSE IF event.key \in {"return", "kp_enter"}
  THEN [a EXCEPT !.scene = ENTERING_PURPOSE]
  ELSE IF event.key \in {"h", "?"} THEN [a EXCEPT !.scene = HELP]
  ELSE IF event.key = "l" THEN [a EXCEPT !.scene = PURPOSE_HISTORY]
  ELSE a

\* the body of "for event in pygame.event.get()" of pucoti.py
legacy_handle_event(a, event) ==
  IF event.type = QUIT THEN [a EXCEPT !.running = FALSE]
  ELSE IF event.type = KEYDOWN
  THEN LET back == IF a.scene \in {HELP, PURPOSE_HISTORY}
                   THEN [a EXCEPT !.scene = MAIN] ELSE a
       IN IF back.scene = ENTERING_PURPOSE
          THEN IF event.key = "backspace"
               THEN [back EXCEPT !.purpose =
                       SubSeq(back.purpose, 1, Len(back.purpose) - 1)]
               ELSE IF event.key \in {"return", "kp_enter", "escape"}
               THEN [back EXCEPT !.scene = MAIN]
               ELSE [back EXCEPT !.purpose = back.purpose \o unicode(event)]
          ELSE legacy_main_key(back, event)
  ELSE a

legacy_record_purpose(a) ==
  IF a.last_scene = ENTERING_PURPOSE /\ a.scene # a.last_scene
  THEN IF a.purpose # <<>>
          /\ (a.purpose_history = <<>>
               \/ a.purpose # a.purpose_history[Len(a.purpose_history)])
       THEN [a EXCEPT !.purpose_history = Append(a.purpose_history, a.purpose),
                      !.history_file = Append(a.history_file, a.purpose)]
       ELSE a
  ELSE a

\* "Render time": remaining is computed when the layout has a place for it
legacy_render_time(a) ==
  IF has_time_rect(a.scene, a.zoom)
  THEN [a EXCEPT !.remaining = a.timer - (a.now - a.start)]
  ELSE a

\* "Ring the bell if the time is up" of pucoti.py
legacy_ring(a) ==
  IF a.remaining < 0
     /\ a.now - a.last_rung > Half * a.config.ring_every
     /\ a.nb_rings # a.config.ring_count
  THEN [a EXCEPT !.last_rung = a.now,
                 !.nb_rings = a.nb_rings + 1,
                 !.bells = a.bells + 1]
  ELSE IF a.remaining > 0
  THEN [a EXCEPT !.nb_rings = 0, !.bells = 0]
  ELSE a

legacy_frame(a) == legacy_ring(legacy_render_time(legacy_record_purpose(a)))

\* main(...) of pucoti.py up to "while True"; seen_positive tells that the
\* turn before computed remaining > 0, bells counts the bells since then
legacy_main(config, now) ==
  [running |-> TRUE,
   config |-> config,
   position |-> 0,
   zoom |-> 0,
   initial_duration |-> config.initial_timer,
   start |-> now,
   timer |-> Half * config.initial_timer,
   last_rung |-> 0,
   nb_rings |-> 0,
   purpose |-> <<>>,
   purpose_history |-> <<>>,
   history_file |-> <<>>,
   last_scene |-> MAIN,
   scene |-> MAIN,
   now |-> now,
   remaining |-> Half * config.initial_timer,
   bells |-> 0]

\* turns of the window scale that are followed, either way, and the seconds
\* that timer is followed up to, either side of initial_duration
MaxZoom == 1
MaxLegacyTimer == 60

LegacyInBounds(a) ==
  /\ a.timer - Half * a.initial_duration <= Half * MaxLegacyTimer
  /\ Half * a.initial_duration - a.timer <= Half * MaxLegacyTimer
  /\ Len(a.purpose) <= 1
  /\ Len(a.purpose_history) <= 1
  /\ a.zoom <= MaxZoom /\ -a.zoom <= MaxZoom
  /\ a.now <= Epoch + MaxElapsed

LegacyHandleEvent(event) ==
  /\ app.running
  /\ app' = legacy_handle_event(app, event)
  /\ LegacyInBounds(app')
  /\ UNCHANGED <<configVars, callback, server, search>>

LegacyEndFrame(dt) ==
  /\ app.running
  /\ app' = [legacy_frame(app) EXCEPT !.now = app.now + dt,
                                      !.last_scene = legacy_frame(app).scene]
  /\ LegacyInBounds(app')
  /\ UNCHANGED <<configVars, callback, server, search>>

LegacyConfigs ==
  {Config(1, 1, c, FALSE) : c \in {-1, 2}}
LegacyEvents ==
  {Key(key, FALSE, FALSE) :
     key \in {"j", "k", "r", "h", "minus", "return"}}
    \cup {Quit}

LegacySteps == {0, 3}

LegacyInit ==
  /\ NoTree
  /\ app \in {legacy_main(config, Epoch + 1) : config \in LegacyConfigs}
  /\ callback = "off"
  /\ server = "off"
  /\ search = "off"

LegacyNext ==
  \/ \E event \in LegacyEvents : LegacyHandleEvent(event)
  \/ \E dt \in LegacySteps : LegacyEndFrame(dt)

LegacySpec == LegacyInit /\ [][LegacyNext]_vars

(* ------------------ claims on the bell, single-file loop --------------- *)
\* C25: a turn of the loop that computes remaining > 0 resets nb_rings and
\* last_rung, so the first turn with remaining < 0 after it plays a bell at
\* once when ring_count is not 0, however recent the bell before; and two
\* bells of one expired period are more than ring_every seconds apart
C25_RearmedBell ==
  /\ [][(\E dt \in LegacySteps : LegacyEndFrame(dt)) /\ app'.remaining > 0
         => app'.nb_rings = 0 /\ app'.last_rung = 0]_vars
  /\ [][(\E dt \in LegacySteps : LegacyEndFrame(dt))
         /\ app.remaining > 0 /\ app'.remaining < 0
         /\ app.config.ring_count # 0
         => Plays]_vars
  /\ [][(\E dt \in LegacySteps : LegacyEndFrame(dt)) /\ Plays /\ app.bells >= 1
         => app.now - app.last_rung > Half * app.config.ring_every]_vars

(* ------------------------ the main screen as a machine ----------------- *)
\* PurposeEditor.handle_event: the editor after the event, and whether the
\* event was handled
editor_handle_event(a, event) ==
  IF ~a.editing
  THEN IF event.type = KEYDOWN /\ event.key = "return"
       THEN [handled |-> TRUE, screen |-> [a EXCEPT !.editing = TRUE]]
       ELSE [handled |-> FALSE, screen |-> a]
  ELSE IF event.type = TEXTINPUT
  THEN [handled |-> TRUE,
        screen |-> [a EXCEPT !.purpose = a.purpose \o event.text]]
  ELSE IF event.type = KEYDOWN /\ event.key = "backspace"
  THEN [handled |-> TRUE,
        screen |-> [a EXCEPT !.purpose =
                      IF event.ctrl THEN delete_last_word(a.purpose)
                      ELSE SubSeq(a.purpose, 1, Len(a.purpose) - 1)]]
  ELSE IF event.type = KEYDOWN /\ event.key \in {"return", "kp_enter", "escape"}
  THEN [handled |-> TRUE,
        screen |-> [a EXCEPT !.ctx_purpose = a.purpose, !.editing = FALSE]]
  ELSE [handled |-> FALSE, screen |-> a]

\* the match of MainScreen.handle_event on the key
screen_key(a, event) ==
  IF event.key = "j"
  THEN [a EXCEPT !.timer_end = a.timer_end - (IF event.shift THEN 60 * 5 ELSE 60)]
  ELSE IF event.key = "k"
  THEN [a EXCEPT !.timer_end = a.timer_end + (IF event.shift THEN 60 * 5 ELSE 60)]
  ELSE IF event.key \in NUMBER_KEYS THEN press_number(a, event)
  ELSE IF event.key = "r"
  THEN [a EXCEPT !.timer_end =
          compute_timer_end(a.initial_duration, a.start, a.now)]
  ELSE IF event.key = "t" THEN [a EXCEPT !.hide_totals = ~a.hide_totals]
  ELSE IF event.key \in {"h", "?"} THEN [a EXCEPT !.pushed = "help"]
  ELSE IF event.key = "l" THEN [a EXCEPT !.pushed = "purpose_history"]
  ELSE a

\* MainScreen.handle_event
screen_handle_event(a, event) ==
  LET edited == editor_handle_event(a, event)
  IN IF edited.handled THEN edited.screen
     ELSE IF event.type # KEYDOWN THEN a
     ELSE screen_key(a, event)

\* MainScreen.__init__, with the PurposeEditor it makes; pushed is the screen
\* that push_state put above this one
MainScreen(config, now) ==
  [config |-> config,
   initial_duration |-> config.initial_timer,
   start |-> round(now),
   timer_end |-> config.initial_timer,
   last_rung |-> 0,
   nb_rings |-> 0,
   hide_totals |-> FALSE,
   purpose |-> <<>>,
   editing |-> FALSE,
   ctx_purpose |-> <<>>,
   pushed |-> "none",
   now |-> now,
   bells |-> 0,
   last_bell |-> 0,
   soon |-> FALSE]

ScreenInBounds(a) ==
  /\ a.timer_end - a.initial_duration <= MaxTimer
  /\ a.initial_duration - a.timer_end <= MaxTimer
  /\ Len(a.purpose) <= MaxPurpose
  /\ a.now <= Epoch + MaxElapsed

\* an event reaches the main screen, the screen on top
ScreenEvent(event) ==
  /\ app.pushed = "none"
  /\ app' = screen_handle_event(app, event)
  /\ ScreenInBounds(app')
  /\ UNCHANGED <<configVars, callback, server, search>>

\* MainScreen.paused_logic, and dt half seconds until it runs again
ScreenLogic(dt) ==
  /\ app' = [ring(app) EXCEPT !.now = app.now + dt]
  /\ ScreenInBounds(app')
  /\ UNCHANGED <<configVars, callback, server, search>>

ScreenEvents ==
  {Key(key, FALSE, FALSE) :
     key \in {"j", "k", "1", "r", "t", "h", "x",
              "return", "kp_enter", "escape", "backspace"}}
    \cup {Key("backspace", FALSE, TRUE), Text(<<"a">>)}
ScreenSteps == {0, 3}

ScreenInit ==
  /\ NoTree
  /\ app \in {MainScreen(Config(1, 1, c, FALSE), Epoch + 1) : c \in {-1, 2}}
  /\ callback = "off"
  /\ server = "off"
  /\ search = "off"

ScreenNext ==
  \/ \E event \in ScreenEvents : ScreenEvent(event)
  \/ \E dt \in ScreenSteps : ScreenLogic(dt)

ScreenSpec == ScreenInit /\ [][ScreenNext]_vars

(* ------------------------ claims on the main screen -------------------- *)
\* C27: key handling is scoped by the scene: the purpose changes only while
\* it is being entered; while it is being entered no key changes timer_end,
\* initial_duration or hide_total; and entering is left only by Return,
\* keypad Enter or Escape, back to the main scene
C27_SceneScoped ==
  [][\A event \in ScreenEvents :
       ScreenEvent(event)
       => /\ app'.purpose # app.purpose => app.editing
          /\ app.editing
               => /\ app'.timer_end = app.timer_end
                  /\ app'.initial_duration = app.initial_duration
                  /\ app'.hide_totals = app.hide_totals
                  /\ app'.pushed = app.pushed
          /\ app.editing /\ ~app'.editing
               => event.key \in {"return", "kp_enter", "escape"}]_vars

(* ---------------------------- CountdownCallback ------------------------ *)
\* a duration as it is written: a sign and parts, each a count and a unit
Duration(negative, parts) == [negative |-> negative, parts |-> parts]

multiplier(unit) ==
  CASE unit = "s" -> 1 [] unit = "m" -> 60 [] unit = "h" -> 3600
    [] unit = "d" -> 86400

RECURSIVE total_of(_)
total_of(parts) ==
  IF parts = <<>> THEN 0
  ELSE parts[1][1] * multiplier(parts[1][2]) + total_of(Tail(parts))

\* human_duration("1h 30m"), in seconds
human_duration(duration) ==
  IF duration.negative THEN -total_of(duration.parts)
  ELSE total_of(duration.parts)

\* CountdownCallback("time:command"); started counts the commands run, last
\* is the current_time of the last update
CountdownCallback(time, command) ==
  [time |-> human_duration(time), command |-> command, executed |-> FALSE,
   started |-> 0, updated |-> FALSE, last |-> 0]

\* update as it would be if reaching the threshold did not arm it again
update_once(c, current_time) ==
  IF current_time >= c.time
  THEN [c EXCEPT !.updated = TRUE, !.last = current_time]
  ELSE IF ~c.executed
  THEN [c EXCEPT !.executed = TRUE, !.started = c.started + 1,
                 !.updated = TRUE, !.last = current_time]
  ELSE [c EXCEPT !.updated = TRUE, !.last = current_time]

\* CountdownCallback.update(current_time)
update(c, current_time) ==
  IF current_time >= c.time
  THEN [c EXCEPT !.executed = FALSE, !.updated = TRUE, !.last = current_time]
  ELSE IF ~c.executed
  THEN [c EXCEPT !.executed = TRUE, !.started = c.started + 1,
                 !.updated = TRUE, !.last = current_time]
  ELSE [c EXCEPT !.updated = TRUE, !.last = current_time]

\* commands that are followed
MaxRuns == 3

\* callback.update(timer_end - (time() - start)), once a turn of the loop
Update(current_time) ==
  /\ callback' = update(callback, current_time)
  /\ callback'.started <= MaxRuns
  /\ UNCHANGED <<configVars, app, server, search>>

RunAt ==
  {Duration(TRUE, << <<1, "m">> >>), Duration(FALSE, << <<0, "s">> >>),
   Duration(FALSE, << <<1, "m">>, <<30, "s">> >>)}
Times == {-120, -61, -60, -59, -1, 0, 1, 89, 90, 91, 120}

CallbackInit ==
  /\ NoTree
  /\ callback \in {CountdownCallback(time, "notify-send") : time \in RunAt}
  /\ app = "off"
  /\ server = "off"
  /\ search = "off"

CallbackNext == \E current_time \in Times : Update(current_time)

CallbackSpec == CallbackInit /\ [][CallbackNext]_vars

\* C23: over any sequence of updates the command is started by exactly the
\* updates with current_time below the threshold that are the first update,
\* or follow an update with current_time at or above the threshold
C23_OncePerCrossing ==
  [][\A current_time \in Times :
       Update(current_time)
       => (callback'.started = callback.started + 1
             <=> /\ current_time < callback.time
                 /\ ~callback.updated \/ callback.last >= callback.time)
          /\ callback'.started \in {callback.started, callback.started + 1}]_vars

\* the command ran, the time came back to the threshold, and it ran again
C23_Witness ==
  /\ callback.started = 2
  /\ callback.executed
  /\ callback.last < callback.time

(* ----------------------------- presence server ------------------------- *)
\* seconds
OLD_DATA_CLEANUP == 300

\* DATA/<room>/<user>.json, with what is read back from it; last_update is
\* also the st_mtime of the file
UserData(room, user, username, last_update) ==
  [room |-> room, user |-> user, username |-> username,
   last_update |-> last_update]

\* usernames, in the order of sorted()
Usernames == <<"ann", "bob">>
key(entry) == CHOOSE i \in 1..Len(Usernames) : Usernames[i] = entry.username

\* delete_old_data as it would be if it did not go into the directories
delete_old_data_flat(s, max_age_seconds) == s

\* delete_old_data(DATA, max_age_seconds): the files that stay, and the
\* directories that are not left empty
delete_old_data(s, max_age_seconds) ==
  LET kept == {file \in s.files : ~(s.now - file.last_update > max_age_seconds)}
  IN [s EXCEPT !.files = kept,
               !.rooms = {room \in s.rooms : \E file \in kept : file.room = room}]

\* sorted(entries, key=lambda x: x.username): stable, by insertion
RECURSIVE insert(_, _)
insert(entry, ordered) ==
  IF ordered = <<>> THEN <<entry>>
  ELSE IF key(ordered[Len(ordered)]) <= key(entry) THEN Append(ordered, entry)
  ELSE Append(insert(entry, SubSeq(ordered, 1, Len(ordered) - 1)),
              ordered[Len(ordered)])

RECURSIVE sorted(_)
sorted(entries) ==
  IF entries = <<>> THEN <<>>
  ELSE insert(entries[Len(entries)], sorted(SubSeq(entries, 1, Len(entries) - 1)))

\* the files of a room, and the orders in which iterdir() may list them
room_files(s, room_id) == {file \in s.files : file.room = room_id}

Listings(files) ==
  {listing \in [1..Cardinality(files) -> files] :
     \A i, j \in 1..Cardinality(files) : i # j => listing[i] # listing[j]}

\* update up to file.write_text: the old files are deleted, the directory of
\* the room is made, the file of the user is written over
written(s, room_id, user_id, username) ==
  LET cleaned == delete_old_data(s, OLD_DATA_CLEANUP)
      data == UserData(room_id, user_id, username, s.now)
  IN [cleaned EXCEPT
        !.files = {file \in cleaned.files :
                     ~(file.room = room_id /\ file.user = user_id)} \cup {data},
        !.rooms = cleaned.rooms \cup {room_id}]

\* update(room_id, user_id, request), iterdir() listing the room as listing
server_update(s, room_id, user_id, username, listing) ==
  [written(s, room_id, user_id, username) EXCEPT
     !.response = sorted(listing), !.served = TRUE]

\* seconds the server is followed for
MaxServerTime == 302

RoomIds == {"r1", "r2"}
UserIds == {"u1", "u2"}

\* PUT /room/{room_id}/user/{user_id}
Request(room_id, user_id, username) ==
  /\ \E listing \in Listings(room_files(written(server, room_id, user_id, username),
                                        room_id)) :
       server' = server_update(server, room_id, user_id, username, listing)
  /\ UNCHANGED <<configVars, app, callback, search>>

\* time passes between two requests
Pass(dt) ==
  /\ server.now + dt <= Epoch + MaxServerTime
  /\ server' = [server EXCEPT !.now = server.now + dt, !.served = FALSE]
  /\ UNCHANGED <<configVars, app, callback, search>>

ServerSteps == {150, 151}

ServerInit ==
  /\ NoTree
  /\ server = [files |-> {}, rooms |-> {}, now |-> Epoch, response |-> <<>>,
               served |-> FALSE]
  /\ app = "off"
  /\ callback = "off"
  /\ search = "off"

ServerNext ==
  \/ \E room_id \in RoomIds, user_id \in UserIds :
       \E i \in 1..Len(Usernames) : Request(room_id, user_id, Usernames[i])
  \/ \E dt \in ServerSteps : Pass(dt)

ServerSpec == ServerInit /\ [][ServerNext]_vars

\* the entries of a response
Returned == {server'.response[i] : i \in 1..Len(server'.response)}
\* a file is older than five minutes
Old(file) == server.now - file.last_update > 5 * 60

\* C24: an update evicts the entries older than five minutes of every room
\* and the rooms left empty, keeps one entry for each user id, the caller's
\* being the one just written, and returns, sorted by username, exactly the
\* entries of the room that are at most five minutes old, the caller's among
\* them
C24_PresenceUpdate ==
  [][\A room_id \in RoomIds, user_id \in UserIds :
       \A i \in 1..Len(Usernames) :
         Request(room_id, user_id, Usernames[i])
         => LET mine == UserData(room_id, user_id, Usernames[i], server.now)
            IN /\ server'.files =
                    {file \in server.files :
                       ~Old(file) /\ ~(file.room = room_id /\ file.user = user_id)}
                      \cup {mine}
               /\ server'.rooms = {file.room : file \in server'.files}
               /\ \A r \in RoomIds, u \in UserIds :
                    Cardinality({file \in server'.files :
                                   file.room = r /\ file.user = u}) <= 1
               /\ Returned =
                    {file \in server.files :
                       /\ file.room = room_id /\ file.user # user_id
                       /\ ~Old(file)} \cup {mine}
               /\ Len(server'.response) = Cardinality(Returned)
               /\ \A m, n \in 1..Len(server'.response) :
                    m < n => key(server'.response[m]) <= key(server'.response[n])]_vars

\* the room of the request held an entry more than five minutes old and one
\* exactly five minutes old: the answer holds the second and the caller's
C24_Witness ==
  /\ server.served
  /\ Len(server.response) = 2
  /\ \E m \in 1..2 : server.now - server.response[m].last_update = 5 * 60
  /\ \E m \in 1..2 : server.response[m].last_update = server.now
  /\ Cardinality(server.rooms) = 1

\* ---------------------------------------------------------------------
\* auto_size (pucoti.py, dtimer.py): the font size of a text in a rectangle

\* largest height of a rectangle, and largest size at which a text may fit
MaxRect == 8
MaxFont == 10

\* text_size[0] <= max_rect[0] and text_size[1] <= max_rect[1] at font_size:
\* the sizes of the text come from the font, of which only this is kept, that
\* the text fits up to the size limit and at no larger size
fits(font_size, limit) == font_size <= limit

\* auto_size(text, max_rect) before its loop
auto_size(limit, height) ==
  [limit |-> limit, height |-> height, min_size |-> 1, max_size |-> height,
   returned |-> FALSE, result |-> 0]

\* one turn of the while loop
Probe ==
  /\ ~search.returned
  /\ search.min_size < search.max_size
  /\ LET font_size == (search.min_size + search.max_size) \div 2
     IN search' = IF fits(font_size, search.limit)
                  THEN [search EXCEPT !.min_size = font_size + 1]
                  ELSE [search EXCEPT !.max_size = font_size]
  /\ UNCHANGED <<configVars, app, callback, server>>

\* return min_size - 1
Return ==
  /\ ~search.returned
  /\ ~(search.min_size < search.max_size)
  /\ search' = [search EXCEPT !.returned = TRUE, !.result = search.min_size - 1]
  /\ UNCHANGED <<configVars, app, callback, server>>

SearchInit ==
  /\ NoTree
  /\ \E limit \in 0..MaxFont, height \in 0..MaxRect :
       \* a line of text is a pixel high at least
       /\ height = 0 => limit = 0
       /\ search = auto_size(limit, height)
  /\ app = "off"
  /\ callback = "off"
  /\ server = "off"

SearchNext == Probe \/ Return

SearchSpec == SearchInit /\ [][SearchNext]_vars

\* the largest size at which the text fits, 0 when there is none
LargestFit(limit) ==
  LET fitting == {font_size \in 1..MaxFont : fits(font_size, limit)}
  IN IF fitting = {} THEN 0
     ELSE CHOOSE font_size \in fitting : \A other \in fitting : other <= font_size

\* C30: the search ends, and what auto_size returns is the largest font size
\* at which the text fits, 0 when it fits at no size
C30_LargestFittingSize ==
  search.returned => search.result = LargestFit(search.limit)

\* the part of C30 that holds: every turn of the loop narrows the interval,
\* and what is returned is the largest fitting size below the height
C30_Narrows ==
  [][Probe => search'.max_size - search'.min_size
                < search.max_size - search.min_size]_vars

C30_LargestBelowHeight ==
  search.returned /\ search.height >= 1
  => LET below == {font_size \in 1..(search.height - 1) :
                     fits(font_size, search.limit)}
     IN /\ search.result \in below \cup {0}
        /\ \A font_size \in below : font_size <= search.result
====
